---- MODULE Spec2Model ----
(***************************************************************************)
(* Draft coordination of OwenFeik/drafttool: the draft state machine       *)
(* (server/src/draft/game.rs) and the lobby actor                          *)
(* (server/src/draft/server.rs).                                           *)
(*                                                                         *)
(* A Card is a value; a Pack is a sequence of cards (packs.rs:159).  A     *)
(* seat (Uuid) is a string.  A HashMap is a function whose DOMAIN is the   *)
(* set of keys present; its iteration order is an input of the operators   *)
(* that iterate it.                                                        *)
(***************************************************************************)
EXTENDS Integers, Sequences, FiniteSets, TLC

\* ---------------------------------------------------------------- bounds
MaxPlayers == 3
MaxRounds == 2
MaxCards == 2
MaxDeck == 8

\* ------------------------------------------------------------- utilities
SeatIds == <<"s1", "s2", "s3", "s4", "s5">>
Stranger == "zz"
NoSeat == "none"
NoCard == [name |-> 0, rarity |-> "None"]

Range(s) == {s[i] : i \in DOMAIN s}

IsPerm(s, S) == Len(s) = Cardinality(S) /\ Range(s) = S

Perms(S) == {s \in [1..Cardinality(S) -> S] : Range(s) = S}

RemoveAt(s, i) == [j \in 1..(Len(s) - 1) |-> IF j < i THEN s[j] ELSE s[j + 1]]

\* players.iter().position(|p| *p == player); 0 when absent
Position(s, x) == IF x \in Range(s) THEN CHOOSE i \in DOMAIN s : s[i] = x /\ \A j \in 1..(i - 1) : s[j] # x ELSE 0

RECURSIVE SumLen(_)
SumLen(s) == IF s = <<>> THEN 0 ELSE Len(Head(s)) + SumLen(Tail(s))

RECURSIVE SumOver(_, _)
SumOver(f, S) == IF S = {} THEN 0 ELSE LET x == CHOOSE y \in S : TRUE IN f[x] + SumOver(f, S \ {x})

\* HashMap insert / entry().or_default()
MapPut(m, k, v) == [x \in DOMAIN m \cup {k} |-> IF x = k THEN v ELSE m[x]]

MapGetOr(m, k, d) == IF k \in DOMAIN m THEN m[k] ELSE d

EmptyMap == <<>>

\* ------------------------------------------------- packs.rs: DraftPool, make_packs
\* A DraftPool is a function from the four pool rarities to its buckets.
Rarities == {"Mythic", "Rare", "Uncommon", "Common"}

DraftPool_new == [r \in Rarities |-> <<>>]

empty(pool) == \A r \in Rarities : pool[r] = <<>>

cards_of(pool, rarity) == IF rarity \in Rarities THEN pool[rarity] ELSE <<>>

\* mutant: a missing uncommon is replaced by a rare before a common
PRIORITIES_rare_first ==
  <<<<"Mythic", "Rare", "Uncommon", "Common">>,
    <<"Rare", "Mythic", "Uncommon", "Common">>,
    <<"Uncommon", "Rare", "Common", "Mythic">>,
    <<"Common", "Uncommon", "Rare", "Mythic">>>>

PRIORITIES ==
  <<<<"Mythic", "Rare", "Uncommon", "Common">>,
    <<"Rare", "Mythic", "Uncommon", "Common">>,
    <<"Uncommon", "Common", "Rare", "Mythic">>,
    <<"Common", "Uncommon", "Rare", "Mythic">>>>

NoRarity == "None"

\* first rarity of the list that begins with `rarity` whose bucket is not empty
replacement_rarity(pool, rarity) ==
  LET ls == {i \in DOMAIN PRIORITIES : PRIORITIES[i][1] = rarity}
  IN IF ls = {} THEN NoRarity
     ELSE LET l == PRIORITIES[CHOOSE i \in ls : \A j \in ls : i <= j]
              ok == {k \in DOMAIN l : cards_of(pool, l[k]) # <<>>}
          IN IF ok = {} THEN NoRarity ELSE l[CHOOSE k \in ok : \A j \in ok : k <= j]

\* mutant: a missing mythic does not degrade to a rare when fallback is off
may_fall_back_strict(pool, rarity, allow_fallback) == allow_fallback

may_fall_back(pool, rarity, allow_fallback) ==
  allow_fallback \/ (rarity = "Mythic" /\ pool["Rare"] # <<>>)

\* mutant: the card taken stays in its bucket
take_keep(pool, rarity, allow_fallback) ==
  LET r == IF cards_of(pool, rarity) # <<>> THEN rarity
           ELSE IF may_fall_back(pool, rarity, allow_fallback) THEN replacement_rarity(pool, rarity)
           ELSE NoRarity
  IN IF r = NoRarity THEN [ok |-> FALSE, card |-> NoCard, pool |-> pool]
     ELSE [ok |-> TRUE, card |-> pool[r][Len(pool[r])], pool |-> pool]

RECURSIVE take(_, _, _)
take(pool, rarity, allow_fallback) ==
  IF empty(pool)
  THEN [ok |-> FALSE, card |-> NoCard, pool |-> pool]
  ELSE IF cards_of(pool, rarity) # <<>>
       THEN LET b == pool[rarity]
            IN [ok |-> TRUE, card |-> b[Len(b)], pool |-> [pool EXCEPT ![rarity] = SubSeq(b, 1, Len(b) - 1)]]
       ELSE IF may_fall_back(pool, rarity, allow_fallback)
            THEN LET fallback == replacement_rarity(pool, rarity)
                 IN IF fallback # NoRarity
                    THEN take(pool, fallback, FALSE)
                    ELSE [ok |-> FALSE, card |-> NoCard, pool |-> pool]
            ELSE [ok |-> FALSE, card |-> NoCard, pool |-> pool]

\* mutant: the card rolled leaves its bucket
roll_consume(pool, rarity, allow_fallback, choice) == take(pool, rarity, allow_fallback)

\* choice: the index the thread rng draws in a bucket of that length
RECURSIVE roll(_, _, _, _)
roll(pool, rarity, allow_fallback, choice) ==
  IF cards_of(pool, rarity) # <<>>
  THEN LET b == pool[rarity]
       IN [ok |-> TRUE, card |-> b[((choice - 1) % Len(b)) + 1], pool |-> pool]
  ELSE IF may_fall_back(pool, rarity, allow_fallback)
       THEN LET fallback == replacement_rarity(pool, rarity)
            IN IF fallback # NoRarity
               THEN roll(pool, fallback, FALSE, choice)
               ELSE [ok |-> FALSE, card |-> NoCard, pool |-> pool]
       ELSE [ok |-> FALSE, card |-> NoCard, pool |-> pool]

\* mutant: every rare slot is promoted
rare_slot_promoted(config, x) == "Mythic"

\* rng.gen_range(0.0..=1.0) < config.mythic_rate, both in hundredths
rare_slot(config, x) == IF x < config.mythic_rate THEN "Mythic" ELSE "Rare"

\* The rarities asked for by the slots of one pack; xs: the rolls of its rare slots
slot_rarities(config, xs) ==
  [i \in 1..config.rares |-> rare_slot(config, xs[i])]
    \o [i \in 1..config.uncommons |-> "Uncommon"]
    \o [i \in 1..config.commons |-> "Common"]

\* One pack: every slot filled by take (unique) or roll (not unique)
RECURSIVE fill_pack(_, _, _, _, _, _)
fill_pack(pool, rarities, allow_fallback, unique, choices, pack) ==
  IF rarities = <<>>
  THEN [ok |-> TRUE, pack |-> pack, pool |-> pool]
  ELSE LET r == IF unique THEN take(pool, Head(rarities), allow_fallback)
                ELSE roll(pool, Head(rarities), allow_fallback, Head(choices))
       IN IF ~r.ok THEN [ok |-> FALSE, pack |-> <<>>, pool |-> r.pool]
          ELSE fill_pack(r.pool, Tail(rarities), allow_fallback, unique, Tail(choices), Append(pack, r.card))

SlotsPerPack(config) == config.rares + config.uncommons + config.commons

\* The loop over players * rounds packs of make_cube_packs_rarities (unique) and
\* make_draft_packs (not unique).  rnd.rolls: one roll per rare slot; rnd.choices:
\* one drawn index per slot.
RECURSIVE slot_packs(_, _, _, _, _, _)
slot_packs(n, config, pool, unique, rnd, packs) ==
  IF n = 0
  THEN [ok |-> TRUE, packs |-> packs]
  ELSE LET k == Len(packs)
           xs == SubSeq(rnd.rolls, k * config.rares + 1, (k + 1) * config.rares)
           cs == SubSeq(rnd.choices, k * SlotsPerPack(config) + 1, (k + 1) * SlotsPerPack(config))
           r == fill_pack(pool, slot_rarities(config, xs), config.allow_fallback, unique, cs, <<>>)
       IN IF ~r.ok THEN [ok |-> FALSE, packs |-> <<>>]
          ELSE slot_packs(n - 1, config, r.pool, unique, rnd, Append(packs, r.pack))

\* rnd.shuffle: the permutation rng gives each bucket
shuffled(b, perm) == [i \in 1..Len(b) |-> b[perm[i]]]

make_cube_packs_rarities(players, config, pool, rnd) ==
  slot_packs(players * config.rounds, config,
             [r \in Rarities |-> shuffled(pool[r], rnd.shuffle[r])], TRUE, rnd, <<>>)

make_draft_packs(players, config, pool, rnd) ==
  slot_packs(players * config.rounds, config, pool, FALSE, rnd, <<>>)

\* mutant: only the first pack is counted against the cards
pop_packs_first(n, c, cards, packs) ==
  IF Len(cards) < c THEN [ok |-> FALSE, packs |-> <<>>]
  ELSE [ok |-> TRUE, packs |-> [k \in 1..n |-> [i \in 1..c |-> cards[Len(cards) + 1 - i]]]]

\* cards.pop() cards_per_pack times for each pack
RECURSIVE pop_packs(_, _, _, _)
pop_packs(n, c, cards, packs) ==
  IF n = 0
  THEN [ok |-> TRUE, packs |-> packs]
  ELSE IF Len(cards) < c
       THEN [ok |-> FALSE, packs |-> <<>>]
       ELSE LET l == Len(cards)
            IN pop_packs(n - 1, c, SubSeq(cards, 1, l - c),
                         Append(packs, [i \in 1..c |-> cards[l + 1 - i]]))

\* rnd.shuffle_all: the permutation rng gives the concatenated buckets
make_cube_packs_no_rarities(players, config, pool, rnd) ==
  LET cards == pool["Mythic"] \o pool["Rare"] \o pool["Uncommon"] \o pool["Common"]
  IN pop_packs(players * config.rounds, config.cards_per_pack, shuffled(cards, rnd.shuffle_all), <<>>)

make_packs(players, config, pool, rnd) ==
  IF config.unique_cards
  THEN IF config.use_rarities
       THEN make_cube_packs_rarities(players, config, pool, rnd)
       ELSE make_cube_packs_no_rarities(players, config, pool, rnd)
  ELSE make_draft_packs(players, config, pool, rnd)

\* What the thread rng can give one call of make_packs(players, config, pool)
Rolls == {0, 50, 100}

\* one roll for each outcome of the comparison with config.mythic_rate
RollsApart(config) ==
  {CHOOSE x \in Rolls : (x < config.mythic_rate) = b : b \in {y < config.mythic_rate : y \in Rolls}}

PoolSize(pool) == Len(pool["Mythic"]) + Len(pool["Rare"]) + Len(pool["Uncommon"]) + Len(pool["Common"])

MaxBucket(pool) == CHOOSE m \in 1..(PoolSize(pool) + 1) :
                     /\ \A r \in Rarities : Len(pool[r]) <= m
                     /\ \A k \in 1..(m - 1) : \E r \in Rarities : Len(pool[r]) > k

Randomness(players, config, pool) ==
  LET n == players * config.rounds
  IN IF ~config.unique_cards
     THEN {[rolls |-> xs, choices |-> cs, shuffle |-> <<>>, shuffle_all |-> <<>>] :
             xs \in [1..(n * config.rares) -> RollsApart(config)],
             cs \in [1..(n * SlotsPerPack(config)) -> 1..MaxBucket(pool)]}
     ELSE IF config.use_rarities
          THEN {[rolls |-> xs, choices |-> <<>>, shuffle |-> sh, shuffle_all |-> <<>>] :
                  xs \in [1..(n * config.rares) -> RollsApart(config)],
                  sh \in {[Mythic |-> m, Rare |-> r, Uncommon |-> u, Common |-> c] :
                            m \in Perms(1..Len(pool["Mythic"])), r \in Perms(1..Len(pool["Rare"])),
                            u \in Perms(1..Len(pool["Uncommon"])), c \in Perms(1..Len(pool["Common"]))}}
          ELSE {[rolls |-> <<>>, choices |-> <<>>, shuffle |-> <<>>, shuffle_all |-> sh] :
                  sh \in Perms(1..PoolSize(pool))}

\* ------------------------------------------------- game.rs: Draft
\* mutant: the direction is kept
reverse_keep(direction) == direction

reverse(direction) == IF direction = "Left" THEN "Right" ELSE "Left"

Draft_new(players, rounds, packs) ==
  [players |-> players,
   pools |-> EmptyMap,
   direction |-> "Right",
   current_round |-> 0,
   rounds |-> rounds,
   generated_packs |-> packs,
   packs_being_drafted |-> EmptyMap]

round_finished(d) == \A p \in DOMAIN d.packs_being_drafted : d.packs_being_drafted[p] = <<>>

\* mutant: the round counter alone decides, the queues are not looked at
draft_complete_by_round(d) == d.current_round = d.rounds

draft_complete(d) == d.current_round = d.rounds /\ round_finished(d)

\* current_pack reading the back of the queue
current_pack_last(d, player) ==
  IF player \in DOMAIN d.packs_being_drafted /\ d.packs_being_drafted[player] # <<>>
  THEN <<d.packs_being_drafted[player][Len(d.packs_being_drafted[player])]>>
  ELSE <<>>

\* mutant: no current pack is ever found
current_pack_none(d, player) == <<>>

current_pack(d, player) ==
  IF player \in DOMAIN d.packs_being_drafted /\ d.packs_being_drafted[player] # <<>>
  THEN <<Head(d.packs_being_drafted[player])>>
  ELSE <<>>

drafted_cards(d, player) == IF player \in DOMAIN d.pools THEN <<d.pools[player]>> ELSE <<>>

queue_size(d, player) == Len(MapGetOr(d.packs_being_drafted, player, <<>>))

\* mutant: a seat is never its own neighbour
next_player_not_self(d, player) ==
  LET index == Position(d.players, player)
      n == Len(d.players)
  IN IF index = 0 \/ n = 1 THEN NoSeat
     ELSE IF d.direction = "Left"
          THEN (IF index = 1 THEN d.players[n] ELSE d.players[index - 1])
          ELSE (IF index = n THEN d.players[1] ELSE d.players[index + 1])

\* mutant: no wrapping at the ends of the list, the seat at an end passes to itself
next_player_no_wrap(d, player) ==
  LET index == Position(d.players, player)
      n == Len(d.players)
  IN IF index = 0 THEN NoSeat
     ELSE IF d.direction = "Left"
          THEN (IF index = 1 THEN d.players[1] ELSE d.players[index - 1])
          ELSE (IF index = n THEN d.players[n] ELSE d.players[index + 1])

next_player(d, player) ==
  LET index == Position(d.players, player)
      n == Len(d.players)
  IN IF index = 0 THEN NoSeat
     ELSE IF d.direction = "Left"
          THEN (IF index = 1 THEN d.players[n] ELSE d.players[index - 1])
          ELSE (IF index = n THEN d.players[1] ELSE d.players[index + 1])

\* mutant: the card is put at the front of the pool
pool_for_push_front(d, player, card) ==
  [d EXCEPT !.pools = MapPut(d.pools, player, <<card>> \o MapGetOr(d.pools, player, <<>>))]

pool_for_push(d, player, card) ==
  [d EXCEPT !.pools = MapPut(d.pools, player, Append(MapGetOr(d.pools, player, <<>>), card))]

\* mutant: the pack is put at the front of the queue
stack_for_push_front(d, player, pack) ==
  [d EXCEPT !.packs_being_drafted =
     MapPut(d.packs_being_drafted, player, <<pack>> \o MapGetOr(d.packs_being_drafted, player, <<>>))]

stack_for_push_back(d, player, pack) ==
  [d EXCEPT !.packs_being_drafted =
     MapPut(d.packs_being_drafted, player, Append(MapGetOr(d.packs_being_drafted, player, <<>>), pack))]

\* The debug_assert!s of start_round, and the unwrap of generated_packs.pop()
start_round_pre(d) ==
  /\ round_finished(d)
  /\ ~draft_complete(d)
  /\ d.current_round < d.rounds
  /\ Len(d.generated_packs) >= Len(d.players)

\* mutant: every pack of the round goes to the first seat
RECURSIVE deal_first(_, _)
deal_first(d, i) ==
  IF i > Len(d.players) THEN d
  ELSE LET n == Len(d.generated_packs)
           pack == d.generated_packs[n]
           d1 == [d EXCEPT !.generated_packs = SubSeq(d.generated_packs, 1, n - 1)]
       IN deal_first(stack_for_push_back(d1, d.players[1], pack), i + 1)

RECURSIVE deal(_, _)
deal(d, i) ==
  IF i > Len(d.players) THEN d
  ELSE LET n == Len(d.generated_packs)
           pack == d.generated_packs[n]
           d1 == [d EXCEPT !.generated_packs = SubSeq(d.generated_packs, 1, n - 1)]
       IN deal(stack_for_push_back(d1, d.players[i], pack), i + 1)

\* mutant: the round counter is not advanced
start_round_same_round(d, ord) ==
  IF ~start_round_pre(d)
  THEN [panic |-> TRUE, draft |-> d, packs |-> <<>>]
  ELSE LET d1 == [d EXCEPT !.direction = reverse(d.direction)]
           d2 == deal(d1, 1)
           keys == SelectSeq(ord, LAMBDA p : p \in DOMAIN d2.packs_being_drafted)
       IN [panic |-> FALSE,
           draft |-> d2,
           packs |-> [i \in 1..Len(keys) |->
                        [player |-> keys[i], pack |-> Head(d2.packs_being_drafted[keys[i]])]]]

\* ord: the iteration order of the packs_being_drafted HashMap
start_round(d, ord) ==
  IF ~start_round_pre(d)
  THEN [panic |-> TRUE, draft |-> d, packs |-> <<>>]
  ELSE LET d1 == [d EXCEPT !.current_round = d.current_round + 1,
                           !.direction = reverse(d.direction)]
           d2 == deal(d1, 1)
           keys == SelectSeq(ord, LAMBDA p : p \in DOMAIN d2.packs_being_drafted)
       IN [panic |-> FALSE,
           draft |-> d2,
           packs |-> [i \in 1..Len(keys) |->
                        [player |-> keys[i], pack |-> Head(d2.packs_being_drafted[keys[i]])]]]

begin(d, ord) ==
  IF d.current_round # 0
  THEN [panic |-> TRUE, draft |-> d, packs |-> <<>>]
  ELSE start_round(d, ord)

\* mutant: the card is copied out of the pack, not removed from it
pick_card_copy(d, player, index) ==
  IF player \notin DOMAIN d.packs_being_drafted
  THEN [ok |-> FALSE, err |-> "Player not in draft.", card |-> NoCard, pack |-> <<>>, draft |-> d]
  ELSE LET pack_stack == d.packs_being_drafted[player]
       IN IF pack_stack = <<>>
          THEN [ok |-> FALSE, err |-> "No current pack.", card |-> NoCard, pack |-> <<>>, draft |-> d]
          ELSE IF index < Len(Head(pack_stack))
               THEN [ok |-> TRUE, err |-> "",
                     card |-> Head(pack_stack)[index + 1],
                     pack |-> Head(pack_stack),
                     draft |-> [d EXCEPT !.packs_being_drafted[player] = Tail(pack_stack)]]
               ELSE [ok |-> FALSE, err |-> "Invalid pick index.", card |-> NoCard, pack |-> <<>>, draft |-> d]

\* mutant: the front pack is popped before the index is checked
pick_card_pop_first(d, player, index) ==
  IF player \notin DOMAIN d.packs_being_drafted
  THEN [ok |-> FALSE, err |-> "Player not in draft.", card |-> NoCard, pack |-> <<>>, draft |-> d]
  ELSE LET pack_stack == d.packs_being_drafted[player]
       IN IF pack_stack = <<>>
          THEN [ok |-> FALSE, err |-> "No current pack.", card |-> NoCard, pack |-> <<>>, draft |-> d]
          ELSE IF index < Len(Head(pack_stack))
               THEN [ok |-> TRUE, err |-> "",
                     card |-> Head(pack_stack)[index + 1],
                     pack |-> RemoveAt(Head(pack_stack), index + 1),
                     draft |-> [d EXCEPT !.packs_being_drafted[player] = Tail(pack_stack)]]
               ELSE [ok |-> FALSE, err |-> "Invalid pick index.", card |-> NoCard, pack |-> <<>>,
                     draft |-> [d EXCEPT !.packs_being_drafted[player] = Tail(pack_stack)]]

\* mutant: the card is taken from the pack at the back of the queue
pick_card_back(d, player, index) ==
  IF player \notin DOMAIN d.packs_being_drafted
  THEN [ok |-> FALSE, err |-> "Player not in draft.", card |-> NoCard, pack |-> <<>>, draft |-> d]
  ELSE LET pack_stack == d.packs_being_drafted[player]
           n == Len(pack_stack)
       IN IF pack_stack = <<>>
          THEN [ok |-> FALSE, err |-> "No current pack.", card |-> NoCard, pack |-> <<>>, draft |-> d]
          ELSE IF index < Len(pack_stack[n])
               THEN [ok |-> TRUE, err |-> "",
                     card |-> pack_stack[n][index + 1],
                     pack |-> RemoveAt(pack_stack[n], index + 1),
                     draft |-> [d EXCEPT !.packs_being_drafted[player] = SubSeq(pack_stack, 1, n - 1)]]
               ELSE [ok |-> FALSE, err |-> "Invalid pick index.", card |-> NoCard, pack |-> <<>>, draft |-> d]

pick_card(d, player, index) ==
  IF player \notin DOMAIN d.packs_being_drafted
  THEN [ok |-> FALSE, err |-> "Player not in draft.", card |-> NoCard, pack |-> <<>>, draft |-> d]
  ELSE LET pack_stack == d.packs_being_drafted[player]
       IN IF pack_stack = <<>>
          THEN [ok |-> FALSE, err |-> "No current pack.", card |-> NoCard, pack |-> <<>>, draft |-> d]
          ELSE IF index < Len(Head(pack_stack))
               THEN [ok |-> TRUE, err |-> "",
                     card |-> Head(pack_stack)[index + 1],
                     pack |-> RemoveAt(Head(pack_stack), index + 1),
                     draft |-> [d EXCEPT !.packs_being_drafted[player] = Tail(pack_stack)]]
               ELSE [ok |-> FALSE, err |-> "Invalid pick index.", card |-> NoCard, pack |-> <<>>, draft |-> d]

\* mutant: the picker's own next pack is not reported
handle_pick_neighbour_only(d, player, index, ord) ==
  LET r == pick_card(d, player, index)
  IN IF ~r.ok
     THEN [ok |-> FALSE, panic |-> FALSE, started |-> FALSE, err |-> r.err, card |-> NoCard,
           packs |-> <<>>, draft |-> r.draft]
     ELSE
       LET d1 == pool_for_push(r.draft, player, r.card)
           next == next_player(d1, player)
           pass == r.pack # <<>> /\ next # NoSeat
           d2 == IF pass THEN stack_for_push_back(d1, next, r.pack) ELSE d1
           newly_available_packs ==
             IF pass /\ Len(d2.packs_being_drafted[next]) = 1
             THEN <<[player |-> next, pack |-> Head(d2.packs_being_drafted[next])]>>
             ELSE <<>>
       IN IF newly_available_packs = <<>> /\ round_finished(d2) /\ ~draft_complete(d2)
          THEN LET s == start_round(d2, ord)
               IN [ok |-> TRUE, panic |-> s.panic, started |-> TRUE, err |-> "", card |-> r.card,
                   packs |-> s.packs, draft |-> s.draft]
          ELSE [ok |-> TRUE, panic |-> FALSE, started |-> FALSE, err |-> "", card |-> r.card,
                packs |-> newly_available_packs, draft |-> d2]

handle_pick(d, player, index, ord) ==
  LET r == pick_card(d, player, index)
  IN IF ~r.ok
     THEN [ok |-> FALSE, panic |-> FALSE, started |-> FALSE, err |-> r.err, card |-> NoCard,
           packs |-> <<>>, draft |-> r.draft]
     ELSE
       LET d1 == pool_for_push(r.draft, player, r.card)
           next == next_player(d1, player)
           pass == r.pack # <<>> /\ next # NoSeat
           d2 == IF pass THEN stack_for_push_back(d1, next, r.pack) ELSE d1
           forNext == IF pass /\ Len(d2.packs_being_drafted[next]) = 1
                      THEN <<[player |-> next, pack |-> Head(d2.packs_being_drafted[next])]>>
                      ELSE <<>>
           forSelf == IF next # player /\ current_pack(d2, player) # <<>>
                      THEN <<[player |-> player, pack |-> current_pack(d2, player)[1]]>>
                      ELSE <<>>
           newly_available_packs == forNext \o forSelf
       IN IF newly_available_packs = <<>> /\ round_finished(d2) /\ ~draft_complete(d2)
          THEN LET s == start_round(d2, ord)
               IN [ok |-> TRUE, panic |-> s.panic, started |-> TRUE, err |-> "", card |-> r.card,
                   packs |-> s.packs, draft |-> s.draft]
          ELSE [ok |-> TRUE, panic |-> FALSE, started |-> FALSE, err |-> "", card |-> r.card,
                packs |-> newly_available_packs, draft |-> d2]

\* The orders in which the HashMap of a Draft can be iterated by this call: every
\* order when the call iterates it (it starts a round), one otherwise.
IterOrders(d, player, index) ==
  IF handle_pick(d, player, index, d.players).started THEN Perms(Range(d.players)) ELSE {d.players}

\* ------------------------------------------------------------ state
VARIABLES
  stage,     \* position of the driver: "new" | "begun" | "running" | "panicked"
  draft,     \* the Draft (game.rs:26-34)
  last,      \* what the last call of begin / handle_pick was given and returned;
             \* of the actor, the request it handled last (op and seat)
  phase,     \* DraftServer.phase (server.rs:130-135), its tag
  readys,    \* Phase::Lobby.0, the ready map
  config,    \* Phase::Lobby.1, the DraftConfig
  pool,      \* Phase::Lobby.2, the DraftPool
  finished,  \* Phase::Finished.0, the final pools
  clients,   \* DraftServer.clients (server.rs:159-161)
  queued,    \* requests waiting in DraftServer.chan
  closed,    \* DraftServer.chan was closed
  sent       \* the messages the actor sent while handling the last request, in order

draftVars == <<stage, draft, last>>

serverVars == <<phase, readys, config, pool, finished, clients, queued, closed, sent>>

vars == <<stage, draft, last, phase, readys, config, pool, finished, clients, queued, closed, sent>>

NoDraft == Draft_new(<<>>, 0, <<>>)

NoCall == [op |-> "none", player |-> NoSeat, index |-> 0, ok |-> FALSE, started |-> FALSE,
           err |-> "", card |-> NoCard, packs |-> <<>>, rarity |-> NoRarity]

NoConfig == [rounds |-> 0, cards_per_pack |-> 0]

NoPool == <<>>

\* ---------------------------------------- the Draft driven as game.rs's tests do
Seating(n) == [i \in 1..n |-> SeatIds[i]]

\* n packs of c cards, every card different (Card::sample, cards/mod.rs:41-52)
SamplePacks(n, c) == [k \in 1..n |-> [j \in 1..c |-> [name |-> (k - 1) * c + j, rarity |-> "Common"]]]

InitDraft ==
  /\ \E P \in 0..MaxPlayers, R \in 0..MaxRounds, C \in 0..MaxCards :
       /\ P * R * C <= MaxDeck
       /\ draft = Draft_new(Seating(P), R, SamplePacks(P * R, C))
       /\ config = [rounds |-> R, cards_per_pack |-> C]
  /\ stage = "new"
  /\ last = NoCall
  /\ phase = "Lobby"
  /\ readys = EmptyMap
  /\ pool = NoPool
  /\ finished = EmptyMap
  /\ clients = <<>>
  /\ queued = 0
  /\ closed = FALSE
  /\ sent = <<>>

DraftBegin ==
  /\ stage = "new"
  /\ \E ord \in Perms(Range(draft.players)) :
       LET r == begin(draft, ord)
       IN IF r.panic
          THEN /\ stage' = "panicked"
               /\ UNCHANGED <<draft, last>>
          ELSE /\ stage' = "begun"
               /\ draft' = r.draft
               /\ last' = [op |-> "begin", player |-> NoSeat, index |-> 0, ok |-> TRUE,
                           started |-> TRUE, err |-> "", card |-> NoCard, packs |-> r.packs,
                           rarity |-> NoRarity]
  /\ UNCHANGED serverVars

DraftPick ==
  /\ stage = "begun"
  /\ \E player \in Range(draft.players) \cup {Stranger}, index \in 0..MaxCards :
     \E ord \in IterOrders(draft, player, index) :
       LET r == handle_pick(draft, player, index, ord)
       IN /\ stage' = IF r.panic THEN "panicked" ELSE "begun"
          /\ draft' = r.draft
          /\ last' = [op |-> "handle_pick", player |-> player, index |-> index, ok |-> r.ok,
                      started |-> r.started, err |-> r.err, card |-> r.card, packs |-> r.packs,
                      rarity |-> NoRarity]
  /\ UNCHANGED serverVars

NextDraft == DraftBegin \/ DraftPick

DraftSpec == InitDraft /\ [][NextDraft]_vars

\* The largest draft of the bounds alone: MaxPlayers seats, MaxRounds rounds, packs
\* of MaxCards cards
InitFull ==
  /\ draft = Draft_new(Seating(MaxPlayers), MaxRounds, SamplePacks(MaxPlayers * MaxRounds, MaxCards))
  /\ config = [rounds |-> MaxRounds, cards_per_pack |-> MaxCards]
  /\ stage = "new"
  /\ last = NoCall
  /\ phase = "Lobby"
  /\ readys = EmptyMap
  /\ pool = NoPool
  /\ finished = EmptyMap
  /\ clients = <<>>
  /\ queued = 0
  /\ closed = FALSE
  /\ sent = <<>>

FullSpec == InitFull /\ [][NextDraft]_vars

\* ------------------------------------------------- server.rs: DraftServer
\* The actor's state as one record: phase (the tag of Phase) with the payload of
\* each variant (readys, config, pool / draft / finished), clients, closed (chan),
\* sent (the messages sent so far while handling the current request, in order)
\* and panicked (begin() hit a failed assertion or unwrap: the task is gone).
\* Of a Client, heartbeat (an Instant that is written and never read) is left out;
\* chan is kept as chan_closed, whether the receiver of the channel is gone.
Started == [type |-> "Started"]

Refresh == [type |-> "Refresh"]

\* A reason is the text after a fixed beginning
Reason(beginning, text) == [beginning |-> beginning, text |-> text]

FatalError(reason) == [type |-> "FatalError", reason |-> reason]

PackMsg(pack) == [type |-> "Pack", pack |-> pack]

PickSuccessful(card) == [type |-> "PickSuccessful", card |-> card]

Finished(cards) == [type |-> "Finished", pool |-> cards]

Connected(seat) == [type |-> "Connected", seat |-> seat]

Reconnected(seat, in_progress, cards, pack) ==
  [type |-> "Reconnected", seat |-> seat, in_progress |-> in_progress, pool |-> cards, pack |-> pack]

PlayerList(list) == [type |-> "PlayerList", players |-> list]

PlayerUpdate(details) == [type |-> "PlayerUpdate", player |-> details]

\* id.to_string()[0..8]
DefaultName(id) == [prefix8_of |-> id, text |-> ""]

SetNameTo(text) == [prefix8_of |-> NoSeat, text |-> text]

\* mutant: a new client starts with status Error
Client_new_error(id, chan_closed) ==
  [id |-> id, name |-> DefaultName(id), chan_closed |-> chan_closed, known_status |-> "Error"]

Client_new(id, chan_closed) ==
  [id |-> id, name |-> DefaultName(id), chan_closed |-> chan_closed, known_status |-> "Ok"]

status(client) == IF client.chan_closed THEN "Error" ELSE client.known_status

\* DraftClients::get / get_mut: the index of the first client with that id, 0 if none
get(cs, id) == Position([i \in DOMAIN cs |-> cs[i].id], id)

remove(cs, id) == SelectSeq(cs, LAMBDA c : c.id # id)

\* Client::send, through send_to or a held reference: the message goes into the
\* client's channel whether or not anybody still receives from it.
\* mutant: a message is put in front of the messages sent before it
send_to_front(S, id, message) ==
  IF get(S.clients, id) = 0 THEN S
  ELSE [S EXCEPT !.sent = <<[to |-> id, msg |-> message]>> \o @]

send_to(S, id, message) ==
  IF get(S.clients, id) = 0 THEN S
  ELSE [S EXCEPT !.sent = Append(@, [to |-> id, msg |-> message])]

\* chan.send(..) on the channel a Connect request carried, held by no client
send_on_request_chan(S, id, message) ==
  [S EXCEPT !.sent = Append(@, [to |-> id, msg |-> message])]

broadcast(S, message, exclude) ==
  LET to == SelectSeq(S.clients, LAMBDA c : c.id # exclude)
  IN [S EXCEPT !.sent = @ \o [i \in 1..Len(to) |-> [to |-> to[i].id, msg |-> message]]]

\* mutant: terminate leaves the inbound queue open
terminate_open(S, error) ==
  broadcast([S EXCEPT !.phase = "Terminated"], FatalError(error), NoSeat)

terminate(S, error) ==
  broadcast([S EXCEPT !.phase = "Terminated", !.closed = TRUE], FatalError(error), NoSeat)

ready_state(S, seat) ==
  IF S.phase = "Lobby" THEN MapGetOr(S.readys, seat, FALSE) ELSE get(S.clients, seat) # 0

details_of(S, seat) ==
  LET client == S.clients[get(S.clients, seat)]
  IN [seat |-> seat, name |-> client.name, ready |-> ready_state(S, seat), status |-> status(client)]

player_list(S) == [i \in DOMAIN S.clients |-> details_of(S, S.clients[i].id)]

\* mutant: the update goes to the player it is about as well
broadcast_player_update_to_all(S, player) ==
  LET ready == IF S.phase = "Lobby" THEN MapGetOr(S.readys, player, FALSE) ELSE TRUE
      i == get(S.clients, player)
  IN IF i = 0 THEN S
     ELSE broadcast(S, PlayerUpdate([seat |-> player, name |-> S.clients[i].name, ready |-> ready,
                                     status |-> status(S.clients[i])]), NoSeat)

broadcast_player_update(S, player) ==
  LET ready == IF S.phase = "Lobby" THEN MapGetOr(S.readys, player, FALSE) ELSE TRUE
      i == get(S.clients, player)
  IN IF i = 0 THEN S
     ELSE broadcast(S, PlayerUpdate([seat |-> player, name |-> S.clients[i].name, ready |-> ready,
                                     status |-> status(S.clients[i])]), player)

\* mutant: the update is broadcast whether or not the status changes
set_client_status_always(S, id, new_status) ==
  LET i == get(S.clients, id)
  IN IF i = 0 THEN S
     ELSE broadcast_player_update([S EXCEPT !.clients[i].known_status = new_status], id)

set_client_status(S, id, new_status) ==
  LET i == get(S.clients, id)
  IN IF i = 0 \/ S.clients[i].known_status = new_status THEN S
     ELSE broadcast_player_update([S EXCEPT !.clients[i].known_status = new_status], id)

RECURSIVE send_packs(_, _)
send_packs(S, packs) ==
  IF packs = <<>> THEN S
  ELSE send_packs(send_to(S, Head(packs).player, PackMsg(Head(packs).pack)), Tail(packs))

\* start_if_ready without the look at the ready flags
start_if_ready_any(S, made, ord) ==
  IF S.phase = "Lobby" /\ S.clients # <<>>
  THEN LET players == [i \in DOMAIN S.clients |-> S.clients[i].id]
       IN IF made.ok
          THEN LET b == begin(Draft_new(players, S.config.rounds, made.packs), ord)
               IN IF b.panic
                  THEN [started |-> TRUE, S |-> [S EXCEPT !.panicked = TRUE]]
                  ELSE [started |-> TRUE, S |-> [send_packs(S, b.packs) EXCEPT !.phase = "Draft", !.draft = b.draft]]
          ELSE [started |-> FALSE, S |-> terminate(S, Reason("Failed to create packs for draft: ", "Insufficient cards"))]
  ELSE [started |-> FALSE, S |-> S]

\* made: what make_packs(players.len(), config, pool.clone()) returns;
\* ord: the iteration order of the HashMap
start_if_ready(S, made, ord) ==
  IF S.phase = "Lobby"
       /\ S.clients # <<>>
       /\ \A i \in DOMAIN S.clients : MapGetOr(S.readys, S.clients[i].id, FALSE)
  THEN LET players == [i \in DOMAIN S.clients |-> S.clients[i].id]
       IN IF made.ok
          THEN LET b == begin(Draft_new(players, S.config.rounds, made.packs), ord)
               IN IF b.panic
                  THEN [started |-> TRUE, S |-> [S EXCEPT !.panicked = TRUE]]
                  ELSE [started |-> TRUE, S |-> [send_packs(S, b.packs) EXCEPT !.phase = "Draft", !.draft = b.draft]]
          ELSE [started |-> FALSE, S |-> terminate(S, Reason("Failed to create packs for draft: ", "Insufficient cards"))]
  ELSE [started |-> FALSE, S |-> S]

\* mutant: only the first seat of the iteration is sent its pool
send_finished_once(S, pools, ord) ==
  IF ord = <<>> \/ Head(ord) \notin DOMAIN pools THEN S
  ELSE send_to(S, Head(ord), Finished(pools[Head(ord)]))

RECURSIVE send_finished(_, _, _)
send_finished(S, pools, ord) ==
  IF ord = <<>> THEN S
  ELSE send_finished(IF Head(ord) \in DOMAIN pools
                     THEN send_to(S, Head(ord), Finished(pools[Head(ord)]))
                     ELSE S,
                     pools, Tail(ord))

\* finish_if_done opening the lobby again
finish_if_done_reopen(S, ord) ==
  IF S.phase = "Draft" /\ draft_complete(S.draft)
  THEN [send_finished(S, S.draft.pools, ord) EXCEPT !.phase = "Lobby", !.finished = S.draft.pools,
                                                    !.draft = NoDraft]
  ELSE S

\* ord: the iteration order of the pools HashMap
finish_if_done(S, ord) ==
  IF S.phase = "Draft" /\ draft_complete(S.draft)
  THEN [send_finished(S, S.draft.pools, ord) EXCEPT !.phase = "Finished", !.finished = S.draft.pools,
                                                    !.draft = NoDraft]
  ELSE S

\* mutant: a seat that is not known joins in every phase
handle_client_connection_late(S, id, chan_closed) ==
  LET i == get(S.clients, id)
  IN IF i # 0
     THEN LET S1 == set_client_status([S EXCEPT !.clients[i].chan_closed = chan_closed], id, "Ok")
          IN CASE S1.phase = "Lobby" -> send_to(S1, id, Connected(id))
               [] S1.phase = "Draft" ->
                    send_to(send_to(S1, id, Reconnected(id, TRUE,
                                                        IF drafted_cards(S1.draft, id) = <<>> THEN <<>>
                                                        ELSE drafted_cards(S1.draft, id)[1],
                                                        current_pack(S1.draft, id))),
                            id, PlayerList(player_list(S1)))
               [] S1.phase = "Finished" ->
                    send_to(send_to(S1, id, Reconnected(id, FALSE, MapGetOr(S1.finished, id, <<>>), <<>>)),
                            id, PlayerList(player_list(S1)))
               [] OTHER -> send_to(S1, id, FatalError(Reason("", "Draft terminated.")))
     ELSE LET S1 == [S EXCEPT !.readys = MapPut(S.readys, id, FALSE),
                              !.clients = Append(S.clients, Client_new(id, chan_closed))]
              S2 == send_to(S1, id, Connected(id))
          IN broadcast(S2, PlayerList(player_list(S2)), NoSeat)

handle_client_connection(S, id, chan_closed) ==
  LET i == get(S.clients, id)
  IN IF i # 0
     THEN LET S1 == set_client_status([S EXCEPT !.clients[i].chan_closed = chan_closed], id, "Ok")
          IN CASE S1.phase = "Lobby" -> send_to(S1, id, Connected(id))
               [] S1.phase = "Draft" ->
                    send_to(send_to(S1, id, Reconnected(id, TRUE,
                                                        IF drafted_cards(S1.draft, id) = <<>> THEN <<>>
                                                        ELSE drafted_cards(S1.draft, id)[1],
                                                        current_pack(S1.draft, id))),
                            id, PlayerList(player_list(S1)))
               [] S1.phase = "Finished" ->
                    send_to(send_to(S1, id, Reconnected(id, FALSE, MapGetOr(S1.finished, id, <<>>), <<>>)),
                            id, PlayerList(player_list(S1)))
               [] OTHER -> send_to(S1, id, FatalError(Reason("", "Draft terminated.")))
     ELSE IF S.phase = "Lobby"
          THEN LET S1 == [S EXCEPT !.readys = MapPut(S.readys, id, FALSE),
                                   !.clients = Append(S.clients, Client_new(id, chan_closed))]
                   S2 == send_to(S1, id, Connected(id))
               IN broadcast(S2, PlayerList(player_list(S2)), NoSeat)
          ELSE send_on_request_chan(S, id, Started)

\* msg: [type, ready | name | index]; made, ord: as for start_if_ready, finish_if_done
handle_client_message(S, id, msg, made, ord) ==
  LET i == get(S.clients, id)
  IN IF i = 0 THEN S
     ELSE
       CASE msg.type = "HeartBeat" -> S
         [] msg.type = "ReadyState" ->
              IF S.phase = "Lobby"
              THEN LET r == start_if_ready([S EXCEPT !.readys = MapPut(S.readys, id, msg.ready)], made, ord)
                   IN IF ~r.started THEN broadcast_player_update(r.S, id) ELSE r.S
              ELSE S
         [] msg.type = "Disconnected" ->
              IF S.phase = "Lobby"
              THEN LET S1 == [S EXCEPT !.clients = remove(S.clients, id),
                                       !.readys = [x \in DOMAIN S.readys \ {id} |-> S.readys[x]]]
                   IN broadcast(S1, PlayerList(player_list(S1)), NoSeat)
              ELSE set_client_status(S, id, "Error")
         [] msg.type = "SetName" ->
              broadcast_player_update([S EXCEPT !.clients[i].name = SetNameTo(msg.name)], id)
         [] msg.type = "Pick" ->
              IF S.phase = "Draft"
              THEN LET r == handle_pick(S.draft, id, msg.index, ord)
                   IN IF r.ok
                      THEN IF r.panic
                           THEN [S EXCEPT !.panicked = TRUE]
                           ELSE finish_if_done(
                                  send_packs(send_to([S EXCEPT !.draft = r.draft], id, PickSuccessful(r.card)),
                                             r.packs),
                                  ord)
                      ELSE IF current_pack(r.draft, id) # <<>>
                           THEN send_to([S EXCEPT !.draft = r.draft], id, PackMsg(current_pack(r.draft, id)[1]))
                           ELSE [S EXCEPT !.draft = r.draft]
              ELSE send_to(S, id, Refresh)

\* ------------------------------------------------- the lobby actor running
MaxSeats == 2
MaxQueue == 2

LobbySeats == {SeatIds[i] : i \in 1..MaxSeats}

Names == {"name"}

Card(n, rarity) == [name |-> n, rarity |-> rarity]

\* The lobbies ServerPool::spawn is given here: packs of one rare and one common
\* slot, of unique cards, for 0..MaxRounds rounds, or packs of no slots for
\* 1..MaxRounds rounds, over a pool that names one rare and one common card twice
\* each: two packs of two cards can be built, a third cannot.
LobbyPool ==
  [DraftPool_new EXCEPT !["Rare"] = <<Card(1, "Rare"), Card(1, "Rare")>>,
                        !["Common"] = <<Card(2, "Common"), Card(2, "Common")>>]

LobbyConfigs ==
  {[rounds |-> r, cards_per_pack |-> 2, unique_cards |-> TRUE, use_rarities |-> TRUE,
    allow_fallback |-> FALSE, mythic_rate |-> 0, rares |-> 1, uncommons |-> 0, commons |-> 1] :
     r \in 0..MaxRounds}
  \cup
  \* packs of no cards: 0 + 0 + 0 = 0 passes the check of handle_launch_request
  {[rounds |-> r, cards_per_pack |-> 0, unique_cards |-> TRUE, use_rarities |-> TRUE,
    allow_fallback |-> FALSE, mythic_rate |-> 0, rares |-> 0, uncommons |-> 0, commons |-> 0] :
     r \in 1..MaxRounds}

Init ==
  /\ stage = "running"
  /\ draft = NoDraft
  /\ last = NoCall
  /\ phase = "Lobby"
  /\ readys = EmptyMap
  /\ config \in LobbyConfigs
  /\ pool = LobbyPool
  /\ finished = EmptyMap
  /\ clients = <<>>
  /\ queued = 0
  /\ closed = FALSE
  /\ sent = <<>>

\* The actor as it takes the next request from chan
Srv ==
  [phase |-> phase, readys |-> readys, config |-> config, pool |-> pool, draft |-> draft,
   finished |-> finished, clients |-> clients, closed |-> closed, sent |-> <<>>, panicked |-> FALSE]

\* run(): one request (op, from seat id) is received and handled to its end
Handled(S, op, id) ==
  /\ queued' = queued - 1
  /\ last' = [NoCall EXCEPT !.op = op, !.player = id]
  /\ sent' = S.sent
  /\ stage' = IF S.panicked THEN "panicked" ELSE "running"
  /\ phase' = S.phase
  /\ readys' = S.readys
  /\ draft' = S.draft
  /\ finished' = S.finished
  /\ clients' = S.clients
  /\ closed' = (S.closed \/ S.panicked)
  /\ UNCHANGED <<config, pool>>

Receiving == stage = "running" /\ queued > 0

ClientIds == [i \in DOMAIN clients |-> clients[i].id]

NotMade == [ok |-> FALSE, packs |-> <<>>]

\* What make_packs can return to the handling of a message: every result the rng
\* allows where start_if_ready is called, nothing to draw elsewhere.
MadeFor(S, id, msg) ==
  IF msg.type = "ReadyState" /\ S.phase = "Lobby" /\ get(S.clients, id) # 0
  THEN {make_packs(Len(S.clients), S.config, S.pool, rnd) :
          rnd \in Randomness(Len(S.clients), S.config, S.pool)}
  ELSE {NotMade}

\* The orders in which the handling of a message can iterate a HashMap: every order
\* where start_if_ready is called, a round starts or the draft ends, one elsewhere.
OrdFor(S, id, msg) ==
  IF \/ msg.type = "ReadyState" /\ S.phase = "Lobby" /\ get(S.clients, id) # 0
     \/ /\ msg.type = "Pick" /\ S.phase = "Draft" /\ get(S.clients, id) # 0
        /\ LET r == handle_pick(S.draft, id, msg.index, S.draft.players)
           IN r.started \/ draft_complete(r.draft)
  THEN Perms(Range(ClientIds))
  ELSE {ClientIds}

\* ServerHandle::send: the request is queued unless chan is closed.  What the
\* request is shows when the actor receives it.
\* mutant: a request is queued on a closed chan as well
SendWhenClosed ==
  /\ queued < MaxQueue
  /\ queued' = queued + 1
  /\ UNCHANGED <<stage, draft, last, phase, readys, config, pool, finished, clients, closed, sent>>

Send ==
  IF closed
  THEN UNCHANGED vars
  ELSE /\ queued < MaxQueue
       /\ queued' = queued + 1
       /\ UNCHANGED <<stage, draft, last, phase, readys, config, pool, finished, clients, closed, sent>>

\* handle_websocket_connection: a task of the connection ends, the receiver of the
\* seat's channel is dropped and a Disconnected is sent for the seat.
TransportExit ==
  /\ \E i \in DOMAIN clients :
       /\ ~clients[i].chan_closed
       /\ clients' = [clients EXCEPT ![i].chan_closed = TRUE]
  /\ IF closed THEN queued' = queued ELSE queued < MaxQueue /\ queued' = queued + 1
  /\ UNCHANGED <<stage, draft, last, phase, readys, config, pool, finished, closed, sent>>

\* run(), DraftServerRequest::Message(id, msg)
MessageBy(id, msg) ==
  /\ Receiving
  /\ \E made \in MadeFor(Srv, id, msg) :
     \E ord \in OrdFor(Srv, id, msg) :
       Handled(handle_client_message(Srv, id, msg, made, ord), msg.type, id)

Message(msg) == \E id \in LobbySeats : MessageBy(id, msg)

\* run(), DraftServerRequest::Connect(id, chan)
ConnectBy(id) ==
  /\ Receiving
  /\ \E chan_closed \in BOOLEAN :
       Handled(handle_client_connection(Srv, id, chan_closed), "Connect", id)

Connect == \E id \in LobbySeats : ConnectBy(id)

HeartBeat == Message([type |-> "HeartBeat"])

ReadyState == \E ready \in BOOLEAN : Message([type |-> "ReadyState", ready |-> ready])

Disconnected == Message([type |-> "Disconnected"])

SetName == \E name \in Names : Message([type |-> "SetName", name |-> name])

Pick == \E index \in 0..config.cards_per_pack : Message([type |-> "Pick", index |-> index])

Terminate ==
  /\ Receiving
  /\ Handled(terminate(Srv, Reason("", "shut down")), "Terminate", NoSeat)

Next ==
  \/ Send
  \/ TransportExit
  \/ Connect
  \/ HeartBeat
  \/ ReadyState
  \/ Disconnected
  \/ SetName
  \/ Pick
  \/ Terminate

Spec == Init /\ [][Next]_vars

\* The seat's connection forwards a Pick of a card of the seat's current pack
\* (handlers.rs:170-183) and the actor handles it
ValidPickBy(id) ==
  \E index \in 0..config.cards_per_pack :
    /\ phase = "Draft"
    /\ current_pack(draft, id) # <<>>
    /\ index < Len(current_pack(draft, id)[1])
    /\ MessageBy(id, [type |-> "Pick", index |-> index])

\* ValidPickBy(id) can be taken: a request is waiting and the seat's current pack
\* has a card
PickEnabled(id) ==
  /\ Receiving
  /\ phase = "Draft"
  /\ get(clients, id) # 0
  /\ current_pack(draft, id) # <<>>
  /\ current_pack(draft, id)[1] # <<>>

\* The lobby with requests that keep arriving while chan is open (weak fairness of
\* Send), and with every seat that has a current pack getting a valid Pick
\* through in the end (strong fairness of ValidPickBy, its enabling condition
\* written out as PickEnabled); run() handles every request it receives to its end.
LiveSpec ==
  /\ Init /\ [][Next]_vars
  /\ WF_vars(Send)
  /\ \A id \in LobbySeats : []<>PickEnabled(id) => []<><<ValidPickBy(id)>>_vars

\* ------------------------------------------------- make_packs called directly
\* as packs.rs's tests do: for the clients of a table that is not empty
\* (start_if_ready), a config that handle_launch_request lets through (rares +
\* uncommons + commons = cards_per_pack; use_rarities is read for unique cards
\* only) or, for unique cards without rarities, any number of cards per pack, and
\* a pool of MaxShuffled cards at most where the whole pool is shuffled.  take
\* and roll are called directly as well.
MaxPacks == 2
MaxBucketCards == 2
MaxSlots == 1
MaxShuffled == 4
MaxPerPack == 3

\* Mythic and Rare buckets of every size, Uncommon and Common buckets empty or full;
\* the cards of a bucket are all different, or all copies of one card
PackPools ==
  {[r \in Rarities |-> [i \in 1..k[r] |-> Card(IF copies THEN 1 ELSE i, r)]] :
     k \in {f \in [Rarities -> 0..MaxBucketCards] :
              f["Uncommon"] \in {0, MaxBucketCards} /\ f["Common"] \in {0, MaxBucketCards}},
     copies \in BOOLEAN}

PackConfigs ==
  {[rounds |-> r, cards_per_pack |-> a + b + c, unique_cards |-> mode[1], use_rarities |-> mode[2],
    allow_fallback |-> f, mythic_rate |-> m, rares |-> a, uncommons |-> b, commons |-> c] :
     r \in 0..MaxRounds, a \in 0..MaxSlots, b \in 0..MaxSlots, c \in 0..MaxSlots,
     mode \in BOOLEAN \X BOOLEAN, f \in BOOLEAN, m \in {0, 100}}
  \cup
  \* unique cards without rarities, cards_per_pack free of the slot counts (packs.rs:348-354)
  {[rounds |-> r, cards_per_pack |-> n, unique_cards |-> TRUE, use_rarities |-> FALSE,
    allow_fallback |-> f, mythic_rate |-> 0, rares |-> a, uncommons |-> 0, commons |-> 0] :
     r \in 0..MaxRounds, n \in 0..MaxPerPack, a \in 0..MaxSlots, f \in BOOLEAN}

InitPacks ==
  /\ \E P \in 1..MaxPlayers :
       /\ clients = [i \in 1..P |-> Client_new(SeatIds[i], FALSE)]
       /\ config \in PackConfigs
       /\ P * config.rounds <= MaxPacks
  /\ pool \in PackPools
  /\ (config.unique_cards /\ ~config.use_rarities) => PoolSize(pool) <= MaxShuffled
  /\ stage = "packs"
  /\ draft = NoDraft
  /\ last = NoCall
  /\ phase = "Lobby"
  /\ readys = EmptyMap
  /\ finished = EmptyMap
  /\ queued = 0
  /\ closed = FALSE
  /\ sent = <<>>

\* make_packs(players.len(), config, pool.clone())
MakePacks ==
  /\ stage = "packs"
  /\ \E rnd \in Randomness(Len(clients), config, pool) :
       LET r == make_packs(Len(clients), config, pool, rnd)
       IN last' = [NoCall EXCEPT !.op = "make_packs", !.ok = r.ok, !.packs = r.packs]
  /\ stage' = "made"
  /\ UNCHANGED <<draft, phase, readys, config, pool, finished, clients, queued, closed, sent>>

\* pool.take(rarity, config.allow_fallback)
TakeCard ==
  /\ stage = "packs"
  /\ \E rarity \in Rarities :
       LET r == take(pool, rarity, config.allow_fallback)
       IN /\ last' = [NoCall EXCEPT !.op = "take", !.rarity = rarity, !.ok = r.ok, !.card = r.card]
          /\ pool' = r.pool
  /\ stage' = "took"
  /\ UNCHANGED <<draft, phase, readys, config, finished, clients, queued, closed, sent>>

\* pool.roll(rarity, config.allow_fallback)
RollCard ==
  /\ stage = "packs"
  /\ \E rarity \in Rarities, choice \in 1..MaxBucket(pool) :
       LET r == roll(pool, rarity, config.allow_fallback, choice)
       IN last' = [NoCall EXCEPT !.op = "roll", !.rarity = rarity, !.ok = r.ok, !.card = r.card]
  /\ stage' = "rolled"
  /\ UNCHANGED <<draft, phase, readys, config, pool, finished, clients, queued, closed, sent>>

NextPacks == MakePacks \/ TakeCard \/ RollCard

PacksSpec == InitPacks /\ [][NextPacks]_vars

\* ------------------------------------------------ properties of the Draft
Pool(d, p) == MapGetOr(d.pools, p, <<>>)

Queue(d, p) == MapGetOr(d.packs_being_drafted, p, <<>>)

Seats(d) == Range(d.players)

PoolCards(d) == SumOver([p \in DOMAIN d.pools |-> Len(d.pools[p])], DOMAIN d.pools)

QueueCards(d) ==
  SumOver([p \in DOMAIN d.packs_being_drafted |-> SumLen(d.packs_being_drafted[p])],
          DOMAIN d.packs_being_drafted)

PickStep == stage = "begun" /\ last'.op = "handle_pick"

\* C1: card conservation.  At any point after begin(), whatever picks succeeded or
\* failed, the cards in all pools, plus the cards in all packs of all queues, plus
\* cards_per_pack for every pack still in generated_packs, are
\* players x rounds x cards_per_pack.
C1_CardConservation ==
  stage = "begun" =>
    PoolCards(draft) + QueueCards(draft) + Len(draft.generated_packs) * config.cards_per_pack
      = Len(draft.players) * config.rounds * config.cards_per_pack

\* C1 witness: mid-draft, after a failing pick: a seat holds two packs, a pool is
\* filled and a round is still to be opened.
C1_Witness ==
  /\ stage = "begun"
  /\ last.op = "handle_pick" /\ ~last.ok
  /\ draft.generated_packs # <<>>
  /\ \E p \in Seats(draft) : Len(Queue(draft, p)) >= 2
  /\ \E p \in Seats(draft) : Len(Pool(draft, p)) >= 1

\* C2: a successful handle_pick(seat, index) returns the card that was at position
\* index of the seat's front pack, appends exactly that card at the end of the
\* seat's pool and leaves every other seat's pool as it was.
C2_PickAppendsToPool ==
  [][(PickStep /\ last'.ok) =>
       LET s == last'.player
           c == Head(Queue(draft, s))[last'.index + 1]
       IN /\ last'.card = c
          /\ Pool(draft', s) = Append(Pool(draft, s), c)
          /\ \A o \in Seats(draft) \ {s} : Pool(draft', o) = Pool(draft, o)]_vars

\* C2 witness: a seat's second successful pick, not from position 0, while another
\* seat has a pool too.
C2_Witness ==
  /\ stage = "begun"
  /\ last.op = "handle_pick" /\ last.ok /\ last.index >= 1
  /\ Len(Pool(draft, last.player)) >= 2
  /\ \E o \in Seats(draft) \ {last.player} : Len(Pool(draft, o)) >= 1

\* C3: handle_pick fails exactly when the seat is not in the draft, or its queue is
\* empty, or the index is not below the length of its front pack; a failing
\* handle_pick returns no card and leaves the whole Draft unchanged.
C3_PickFailsExactlyWhen ==
  [][PickStep =>
       LET s == last'.player
           bad == \/ s \notin Seats(draft)
                  \/ Queue(draft, s) = <<>>
                  \/ last'.index >= Len(Head(Queue(draft, s)))
       IN /\ last'.ok <=> ~bad
          /\ ~last'.ok => (last'.card = NoCard /\ last'.packs = <<>> /\ draft' = draft)]_vars

\* C3 witness: a seat whose queue is empty was refused a pick in a draft where picks
\* do succeed (pools are filled and queues are not all empty).
C3_Witness ==
  /\ stage = "begun"
  /\ last.op = "handle_pick" /\ ~last.ok
  /\ last.err = "No current pack."
  /\ \E p \in Seats(draft) : Len(Pool(draft, p)) >= 1
  /\ \E p \in Seats(draft) : Queue(draft, p) # <<>>

\* C8: once draft_complete() holds (rounds >= 1, cards_per_pack >= 1) no generated
\* pack is left, every seat has drafted exactly rounds x cards_per_pack cards, and
\* every handle_pick from then on fails and changes nothing.
C8_CompleteIsFinal ==
  [][(stage = "begun" /\ config.rounds >= 1 /\ config.cards_per_pack >= 1 /\ draft_complete(draft)) =>
       /\ draft.generated_packs = <<>>
       /\ \A p \in Seats(draft) : Len(Pool(draft, p)) = config.rounds * config.cards_per_pack
       /\ last'.op = "handle_pick" /\ ~last'.ok
       /\ draft' = draft]_vars

\* C8 witness: a draft of several seats, rounds and cards is complete and a pick was
\* tried afterwards.
C8_Witness ==
  /\ stage = "begun"
  /\ draft_complete(draft)
  /\ Len(draft.players) >= 2 /\ config.rounds >= 2 /\ config.cards_per_pack >= 2
  /\ last.op = "handle_pick" /\ ~last.ok

\* Every queue is empty once the pick (s, i) is done: s picks the last card of its
\* only pack and nobody else holds a pack.
LastPickOfRound(d, s, i) ==
  /\ s \in Seats(d)
  /\ Len(Queue(d, s)) = 1
  /\ Len(Head(Queue(d, s))) = 1
  /\ i = 0
  /\ \A o \in Seats(d) \ {s} : Queue(d, o) = <<>>

C10_OnePackPerSeat ==
  (stage = "begun" /\ last.started) =>
    /\ \A p \in Seats(draft) : Len(Queue(draft, p)) = 1
    /\ Len(last.packs) = Len(draft.players)
    /\ \A p \in Seats(draft) :
         \E i \in 1..Len(last.packs) :
           last.packs[i].player = p /\ last.packs[i].pack = Head(Queue(draft, p))

\* C10 witness: a round was opened by a pick, for two seats or more.
C10_Witness ==
  /\ stage = "begun"
  /\ last.op = "handle_pick" /\ last.started
  /\ Len(draft.players) >= 2
  /\ config.cards_per_pack >= 2

\* ------------------------------------------------ properties of the lobby
ReadyOf(flags, id) == MapGetOr(flags, id, FALSE)

AllReady(flags, cs) == cs # <<>> /\ \A i \in DOMAIN cs : ReadyOf(flags, cs[i].id)

SentTo(msgs, id) ==
  LET mine == SelectSeq(msgs, LAMBDA m : m.to = id)
  IN [j \in DOMAIN mine |-> mine[j].msg]

SentOfType(msgs, type) == \E j \in DOMAIN msgs : msgs[j].msg.type = type

\* The step handles a request to its end
HandlesRequest == stage = "running" /\ queued' = queued - 1

FrontPack(d, p) == IF Queue(d, p) = <<>> THEN <<>> ELSE <<Head(Queue(d, p))>>

\* C4: the Phase only moves forward.  Whatever request is handled, the phase stays or
\* goes from Lobby to Draft, from Draft to Finished, or from any phase to
\* Terminated; Terminated is never left.
C4_PhaseMovesForward ==
  [][phase' # phase =>
       \/ phase = "Lobby" /\ phase' = "Draft"
       \/ phase = "Draft" /\ phase' = "Finished"
       \/ phase' = "Terminated"]_vars

\* C4 witness: a lobby went through Lobby, Draft and Finished, and a Connect of a
\* seat was handled in Finished.
C4_Witness ==
  /\ phase = "Finished"
  /\ \E j \in DOMAIN sent : sent[j].msg.type = "Reconnected" /\ ~sent[j].msg.in_progress

\* C5: an unready seat blocks the start.  A step from Lobby to Draft is the handling
\* of a ReadyState message, with a client table that is not empty and whose every
\* client is ready once the message's flag is stored; and a request handled in Lobby
\* sends a Pack to anyone only if no client's flag is false then.
C5_UnreadyBlocksStart ==
  [][/\ (phase = "Lobby" /\ phase' = "Draft") =>
          /\ HandlesRequest
          /\ last'.op = "ReadyState"
          /\ clients' = clients
          /\ AllReady(readys', clients)
     /\ (phase = "Lobby" /\ HandlesRequest /\ SentOfType(sent', "Pack")) =>
          AllReady(readys', clients')]_vars

\* C5 witness: in a lobby of two, one seat said it is ready and the other has not:
\* the others were told, and the lobby is still a lobby.
C5_Witness ==
  /\ phase = "Lobby"
  /\ Len(clients) = 2
  /\ \E i, k \in DOMAIN clients : ReadyOf(readys, clients[i].id) /\ ~ReadyOf(readys, clients[k].id)
  /\ \E j \in DOMAIN sent : sent[j].msg.type = "PlayerUpdate" /\ sent[j].msg.player.ready

\* C6: once all players of the lobby are ready the draft starts.  After a request is
\* handled to its end there is no state of the running actor in which the phase is
\* Lobby, the client table is not empty and every client's flag is true.
C6_AllReadyStarts ==
  ~(stage = "running" /\ phase = "Lobby" /\ AllReady(readys, clients))

\* C7: resumption mid-draft.  In Draft a Connect of a known seat A sends A
\* Reconnected with in_progress, A's pool and the pack at the front of A's queue
\* (none for an empty queue), and then PlayerList.  While A holds a pack, no step
\* but a Pick of A changes A's pool or the pack at the front of A's queue: what
\* Reconnected tells is what A had when it disconnected.
C7_ReconnectResumes ==
  [][\A A \in LobbySeats :
       /\ (phase = "Draft" /\ get(clients, A) # 0 /\ HandlesRequest
             /\ last'.op = "Connect" /\ last'.player = A) =>
            /\ Len(SentTo(sent', A)) = 2
            /\ SentTo(sent', A)[1] = Reconnected(A, TRUE, Pool(draft, A), FrontPack(draft, A))
            /\ SentTo(sent', A)[2].type = "PlayerList"
            /\ draft' = draft
       /\ (/\ phase = "Draft" /\ phase' = "Draft" /\ Queue(draft, A) # <<>>
           /\ ~(HandlesRequest /\ last'.op = "Pick" /\ last'.player = A)) =>
            /\ Pool(draft', A) = Pool(draft, A)
            /\ FrontPack(draft', A) = FrontPack(draft, A)]_vars

\* C7 witness: a seat that was disconnected mid-draft (the others are now told it is
\* back) is sent Reconnected with the cards it drafted and the pack it holds.
C7_Witness ==
  /\ phase = "Draft"
  /\ \E j, k \in DOMAIN sent :
       /\ sent[k].msg.type = "PlayerUpdate"
       /\ sent[j].msg.type = "Reconnected"
       /\ sent[j].msg.in_progress
       /\ sent[j].msg.pool # <<>>
       /\ sent[j].msg.pack # <<>>

\* ------------------------------------------------ properties of passing
\* The seat before / after seat s in the player list, wrapping around
LeftOf(d, s) == d.players[((Position(d.players, s) + Len(d.players) - 2) % Len(d.players)) + 1]

RightOf(d, s) == d.players[(Position(d.players, s) % Len(d.players)) + 1]

DirectionOf(round) == IF round % 2 = 1 THEN "Left" ELSE "Right"

\* The pack a successful pick (s, i) leaves over
Residual(d, s, i) == RemoveAt(Head(Queue(d, s)), i + 1)

\* C11: the pass direction alternates per round.  In every round with an odd number
\* the direction is Left, in every round with an even number Right; the direction
\* changes exactly in the steps that start a round; and a pack that a pick leaves
\* over goes to the back of the queue of the seat before the picker (wrapping to the
\* last seat) in an odd round, of the seat after the picker (wrapping to the first)
\* in an even round, and to no other queue.
C11_DirectionAlternates ==
  [][stage' = "begun" =>
       /\ draft'.direction = DirectionOf(draft'.current_round)
       /\ (draft'.direction # draft.direction) <=> last'.started
       /\ (PickStep /\ last'.ok /\ Residual(draft, last'.player, last'.index) # <<>>) =>
            LET s == last'.player
                residual == Residual(draft, s, last'.index)
                N == IF draft.current_round % 2 = 1 THEN LeftOf(draft, s) ELSE RightOf(draft, s)
            IN /\ Queue(draft', N) # <<>>
               /\ Queue(draft', N)[Len(Queue(draft', N))] = residual
               /\ \A o \in Seats(draft) \ {N} : residual \notin Range(Queue(draft', o))]_vars

\* C11 witness: in the second round of a draft of three seats a pick has left a pack
\* over, which now waits in a queue.
C11_Witness ==
  /\ stage = "begun"
  /\ Len(draft.players) >= 3
  /\ draft.current_round = 2
  /\ draft.direction = "Right"
  /\ last.op = "handle_pick" /\ last.ok /\ ~last.started
  /\ \E p \in Seats(draft) :
       /\ Queue(draft, p) # <<>>
       /\ Len(Queue(draft, p)[Len(Queue(draft, p))]) = config.cards_per_pack - 1
       /\ config.cards_per_pack >= 2

\* C12: next_player(seat) is None for a seat that is not in the player list (the
\* empty list too); for the seat at index i of n seats it is the seat at (i-1) mod n
\* when the direction is Left and at (i+1) mod n when it is Right; a single seat is
\* its own neighbour in both directions.
C12_NextPlayer ==
  \A s \in Range(SeatIds) \cup {Stranger} :
    LET n == Len(draft.players)
        i == Position(draft.players, s)
    IN IF s \notin Seats(draft)
       THEN next_player(draft, s) = NoSeat
       ELSE /\ draft.direction = "Left" => next_player(draft, s) = draft.players[((i + n - 2) % n) + 1]
            /\ draft.direction = "Right" => next_player(draft, s) = draft.players[(i % n) + 1]
            /\ n = 1 => next_player(draft, s) = s

\* C12 witness: three seats in a round that passes Right: the last seat passes to
\* the first, and a seat outside the list has no neighbour.
C12_Witness ==
  /\ stage = "begun"
  /\ Len(draft.players) = 3
  /\ draft.direction = "Right"
  /\ next_player(draft, draft.players[3]) = draft.players[1]
  /\ next_player(draft, Stranger) = NoSeat

\* The seat the picker s passes to in the round the draft is in
Neighbour(d, s) == IF d.direction = "Left" THEN LeftOf(d, s) ELSE RightOf(d, s)

\* The queue of seat p once the pack s picks from is taken off s's queue, before
\* anything is pushed
QueueAtPush(d, s, p) == IF p = s THEN Tail(Queue(d, s)) ELSE Queue(d, p)

Reported(packs, p) == {packs[j].pack : j \in {k \in DOMAIN packs : packs[k].player = p}}

C15_SingleSeat ==
  [][(/\ PickStep /\ Len(draft.players) = 1 /\ config.rounds = 1 /\ config.cards_per_pack >= 1
      /\ last'.player = draft.players[1]) =>
       LET s == draft.players[1]
           c == config.cards_per_pack
           k == Len(Pool(draft, s)) + 1
       IN /\ last'.ok <=> (k <= c /\ last'.index < c - k + 1)
          /\ (last'.ok /\ k < c) =>
               /\ last'.packs = <<[player |-> s, pack |-> Residual(draft, s, last'.index)]>>
               /\ Len(Residual(draft, s, last'.index)) = c - k
               /\ ~draft_complete(draft')
          /\ (last'.ok /\ k = c) =>
               /\ last'.packs = <<>>
               /\ draft_complete(draft')
               /\ Len(Pool(draft', s)) = c]_vars

\* C15 witness: a single seat has drafted its one pack of two cards or more to the
\* end.
C15_Witness ==
  /\ stage = "begun"
  /\ Len(draft.players) = 1 /\ config.rounds = 1 /\ config.cards_per_pack >= 2
  /\ last.op = "handle_pick" /\ last.ok /\ last.packs = <<>>
  /\ draft_complete(draft)
  /\ Len(Pool(draft, draft.players[1])) = config.cards_per_pack

\* C16: picks touch only the front.  After a handle_pick by seat S, successful or
\* not, the queue of every seat is the queue it had, without its front pack if the
\* seat is S and the pick succeeded, followed by the pack left over (the front pack
\* of S without the card picked) if the seat is S's neighbour and that pack is not
\* empty, followed by one pack of generated_packs if the pick started a round; the
\* card picked is added at the end of S's pool and every other pool is unchanged.
\* So no pack other than the front pack of S loses or gains a card, and packs keep
\* their order of arrival in every queue.
C16_PicksTouchOnlyFront ==
  [][PickStep =>
       LET s == last'.player
           N == Neighbour(draft, s)
           took == last'.ok
           residual == Residual(draft, s, last'.index)
           pushed(t) == IF took /\ t = N /\ residual # <<>> THEN <<residual>> ELSE <<>>
           kept(t) == IF took THEN QueueAtPush(draft, s, t) ELSE Queue(draft, t)
       IN /\ \A t \in Seats(draft) :
               /\ Len(Queue(draft', t)) =
                    Len(kept(t)) + Len(pushed(t)) + (IF last'.started THEN 1 ELSE 0)
               /\ SubSeq(Queue(draft', t), 1, Len(kept(t)) + Len(pushed(t))) = kept(t) \o pushed(t)
               /\ last'.started =>
                    Queue(draft', t)[Len(Queue(draft', t))] \in Range(draft.generated_packs)
               /\ Pool(draft', t) =
                    IF took /\ t = s
                    THEN Append(Pool(draft, s), Head(Queue(draft, s))[last'.index + 1])
                    ELSE Pool(draft, t)
          /\ DOMAIN draft'.packs_being_drafted = DOMAIN draft.packs_being_drafted
          /\ DOMAIN draft'.pools \subseteq Seats(draft)]_vars

\* C16 witness: among three seats a pick that started no round has succeeded, the
\* picker still holds a pack that was passed to it, and another seat holds two
\* packs or more.
C16_Witness ==
  /\ stage = "begun" /\ last.op = "handle_pick" /\ last.ok /\ ~last.started
  /\ Len(draft.players) >= 3
  /\ Queue(draft, last.player) # <<>>
  /\ Len(Head(Queue(draft, last.player))) < config.cards_per_pack
  /\ \E t \in Seats(draft) \ {last.player} : Len(Queue(draft, t)) >= 2

\* The step handles ReadyState(true) of the only client that was not ready, in
\* Lobby
LastReady ==
  /\ HandlesRequest /\ last'.op = "ReadyState" /\ phase = "Lobby"
  /\ get(clients, last'.player) # 0
  /\ ~ReadyOf(readys, last'.player)
  /\ \A i \in DOMAIN clients : clients[i].id # last'.player => ReadyOf(readys, clients[i].id)
  /\ ReadyOf(readys', last'.player)

\* make_packs succeeds for the clients of the table, whatever the rng draws
PacksCanBeMade ==
  \A rnd \in Randomness(Len(clients), config, pool) :
    make_packs(Len(clients), config, pool, rnd).ok

PacksSentTo(msgs, id) == SelectSeq(SentTo(msgs, id), LAMBDA m : m.type = "Pack")

\* C17: when the last client that was not ready sends ReadyState(true) and
\* make_packs succeeds, the actor sends exactly one Pack message to every client of
\* the table, holding the pack at the front of that seat's queue, the seats of the
\* draft are the clients of the table in the order they joined, the phase becomes
\* Draft, and no PlayerUpdate is sent while that ReadyState is handled.
C17_LastReadyStartsDraft ==
  [][(LastReady /\ PacksCanBeMade) =>
       /\ phase' = "Draft"
       /\ draft'.players = ClientIds
       /\ \A i \in DOMAIN clients :
            /\ Queue(draft', clients[i].id) # <<>>
            /\ PacksSentTo(sent', clients[i].id) = <<PackMsg(Head(Queue(draft', clients[i].id)))>>
       /\ ~SentOfType(sent', "PlayerUpdate")]_vars

\* The step handles a ReadyState in Lobby after which every client of the table is
\* ready
AllBecomeReady ==
  /\ HandlesRequest /\ last'.op = "ReadyState" /\ phase = "Lobby"
  /\ get(clients, last'.player) # 0
  /\ AllReady(readys', clients)

\* make_packs fails for the clients of the table, whatever the rng draws
PacksCannotBeMade ==
  \A rnd \in Randomness(Len(clients), config, pool) :
    ~make_packs(Len(clients), config, pool, rnd).ok

FailedToCreatePacks(m) ==
  m.type = "FatalError" /\ m.reason.beginning = "Failed to create packs for draft: "

\* C18: if make_packs fails when all clients become ready, the lobby never enters
\* Draft.  The step that handles the ReadyState makes the phase Terminated, closes
\* the inbound queue, sends every client of the table a FatalError whose reason
\* begins "Failed to create packs for draft: ", and sends no Pack; no Pack is sent
\* by a request handled in Lobby before it or in Terminated after it, and
\* Terminated is not left.
C18_FailedPacksTerminate ==
  [][/\ (AllBecomeReady /\ PacksCannotBeMade) =>
          /\ phase' = "Terminated"
          /\ closed'
          /\ \A i \in DOMAIN clients :
               \E j \in DOMAIN sent' : sent'[j].to = clients[i].id /\ FailedToCreatePacks(sent'[j].msg)
          /\ ~SentOfType(sent', "Pack")
     /\ (HandlesRequest /\ phase' \in {"Lobby", "Terminated"}) => ~SentOfType(sent', "Pack")
     /\ phase = "Terminated" => phase' = "Terminated"]_vars

\* C18 witness: two clients became ready, make_packs failed, and both were sent the
\* FatalError.
C18_Witness ==
  /\ phase = "Terminated" /\ closed /\ last.op = "ReadyState"
  /\ Len(clients) = 2
  /\ \A i \in DOMAIN clients :
       \E j \in DOMAIN sent : sent[j].to = clients[i].id /\ FailedToCreatePacks(sent[j].msg)

\* C19: start_if_ready returns true when make_packs fails and the lobby is
\* terminated, so the handling of the ReadyState that made every client ready
\* sends no PlayerUpdate after the FatalError; and it returns false, which is what
\* makes the handling of a ReadyState send a PlayerUpdate, only when it left the
\* phase as it was.
C19_NoUpdateAfterFatalError ==
  [][(HandlesRequest /\ last'.op = "ReadyState" /\ phase = "Lobby") =>
       /\ (AllBecomeReady /\ PacksCannotBeMade) => ~SentOfType(sent', "PlayerUpdate")
       /\ SentOfType(sent', "PlayerUpdate") => phase' = phase]_vars

\* The step handles a Pick in Draft by which the seat's pool grows by a card
PickTaken ==
  /\ HandlesRequest /\ last'.op = "Pick" /\ phase = "Draft"
  /\ get(clients, last'.player) # 0
  /\ \/ phase' = "Draft" /\ Len(Pool(draft', last'.player)) = Len(Pool(draft, last'.player)) + 1
     \/ phase' = "Finished"

PoolAfter(id) == IF phase' = "Finished" THEN MapGetOr(finished', id, <<>>) ELSE Pool(draft', id)

\* C20: for a successful Pick handled in Draft, the messages the actor sends are,
\* in this order, PickSuccessful(card) to the picker, with the card that went to its
\* pool, then the Pack messages of the pick, then the Finished messages if the
\* draft ended; nothing else is sent, and all of it is sent within the step that
\* handles the Pick, before the next request is received.
C20_PickMessageOrder ==
  [][PickTaken =>
       LET mine == PoolAfter(last'.player)
           types == [j \in DOMAIN sent' |-> sent'[j].msg.type]
       IN /\ sent' # <<>>
          /\ sent'[1] = [to |-> last'.player, msg |-> PickSuccessful(mine[Len(mine)])]
          /\ \A j \in DOMAIN sent' : j > 1 => types[j] \in {"Pack", "Finished"}
          /\ \A j, k \in DOMAIN sent' : (types[j] = "Pack" /\ types[k] = "Finished") => j < k
          /\ SentOfType(sent', "Finished") <=> phase' = "Finished"
          /\ queued' = queued - 1]_vars

\* C20 witness: a Pick was handled that sent PickSuccessful to the picker and then a
\* Pack to another seat.
C20_Witness ==
  /\ phase = "Draft" /\ last.op = "Pick"
  /\ Len(sent) >= 2
  /\ sent[1].to = last.player /\ sent[1].msg.type = "PickSuccessful"
  /\ \E j \in DOMAIN sent : j > 1 /\ sent[j].msg.type = "Pack" /\ sent[j].to # last.player

FinishedSentTo(msgs, id) == SelectSeq(SentTo(msgs, id), LAMBDA m : m.type = "Finished")

\* C21: when the pick that completes the draft is handled, every seat of the draft
\* is sent exactly one Finished message, carrying the seat's whole pool of
\* rounds x cards_per_pack cards (for the picker the pool with the card just
\* picked), and the phase becomes Finished holding these pools; no request handled
\* after that sends a Pack or a PickSuccessful to any seat.
C21_FinishedOncePerSeat ==
  [][/\ (HandlesRequest /\ phase = "Draft" /\ phase' = "Finished") =>
          /\ last'.op = "Pick"
          /\ DOMAIN finished' = Seats(draft)
          /\ \A s \in Seats(draft) :
               /\ FinishedSentTo(sent', s) = <<Finished(finished'[s])>>
               /\ Len(finished'[s]) = config.rounds * config.cards_per_pack
               /\ IF s = last'.player
                  THEN /\ SubSeq(finished'[s], 1, Len(finished'[s]) - 1) = Pool(draft, s)
                       /\ sent'[1].msg = PickSuccessful(finished'[s][Len(finished'[s])])
                  ELSE finished'[s] = Pool(draft, s)
     /\ (HandlesRequest /\ phase = "Finished") =>
          /\ ~SentOfType(sent', "Pack")
          /\ ~SentOfType(sent', "PickSuccessful")
          /\ ~SentOfType(sent', "Finished")
          /\ finished' = finished]_vars

\* C21 witness: the last pick of a draft of two seats was handled, and both seats
\* were sent their pools.
C21_Witness ==
  /\ phase = "Finished" /\ last.op = "Pick"
  /\ Len(clients) = 2
  /\ \A i \in DOMAIN clients :
       /\ FinishedSentTo(sent, clients[i].id) # <<>>
       /\ Len(FinishedSentTo(sent, clients[i].id)[1].pool) >= 2

\* The step handles a Pick of a client in Draft that handle_pick rejects: no card
\* goes to the picker's pool (a successful handle_pick adds one, C2 and C3)
PickRejected ==
  /\ HandlesRequest /\ last'.op = "Pick" /\ phase = "Draft"
  /\ get(clients, last'.player) # 0
  /\ ~PickTaken

\* C22: a Pick that handle_pick rejects in Draft changes nothing in the draft and
\* sends nothing to another seat.  If the picker has a current pack the picker is
\* sent Pack(the pack at the front of its queue) and nothing else is sent,
\* otherwise nothing is sent; no PickSuccessful is sent and the phase stays Draft.
\* A Pick of a seat whose queue is empty is always rejected.
C22_RejectedPick ==
  [][/\ PickRejected =>
          /\ draft' = draft
          /\ phase' = "Draft"
          /\ clients' = clients
          /\ sent' = IF Queue(draft, last'.player) # <<>>
                     THEN <<[to |-> last'.player, msg |-> PackMsg(Head(Queue(draft, last'.player)))]>>
                     ELSE <<>>
     /\ (HandlesRequest /\ last'.op = "Pick" /\ phase = "Draft"
           /\ get(clients, last'.player) # 0 /\ Queue(draft, last'.player) = <<>>) =>
          PickRejected]_vars

\* C22 witness: with two seats in the draft a Pick was rejected and the picker was
\* sent the pack at the front of its queue again.
C22_Witness ==
  /\ phase = "Draft" /\ last.op = "Pick" /\ Len(clients) = 2
  /\ Queue(draft, last.player) # <<>>
  /\ sent = <<[to |-> last.player, msg |-> PackMsg(Head(Queue(draft, last.player)))]>>

\* The step handles a Connect of a seat that is not in the client table, in a phase
\* other than Lobby
LateConnect ==
  /\ HandlesRequest /\ last'.op = "Connect" /\ phase # "Lobby"
  /\ get(clients, last'.player) = 0

\* C23: a Connect of a seat that is not in the client table, handled in a phase
\* other than Lobby, sends exactly one message, Started, on the channel of the
\* request, creates no client and changes nothing; so once the phase is not Lobby
\* the seats of the client table stay the same, in Draft they are the players of
\* the draft and in Finished the seats whose pools are kept.
C23_LateConnectRefused ==
  [][/\ LateConnect =>
          /\ sent' = <<[to |-> last'.player, msg |-> Started]>>
          /\ UNCHANGED <<clients, phase, readys, draft, finished, closed, config, pool>>
     /\ phase # "Lobby" => [i \in DOMAIN clients' |-> clients'[i].id] = ClientIds
     /\ phase' = "Draft" => draft'.players = [i \in DOMAIN clients' |-> clients'[i].id]
     /\ phase' = "Finished" => DOMAIN finished' = {clients'[i].id : i \in DOMAIN clients'}]_vars

\* C23 witness: a seat that never joined was answered Started while the draft of
\* another seat was running.
C23_Witness ==
  /\ phase = "Draft" /\ last.op = "Connect"
  /\ get(clients, last.player) = 0
  /\ clients # <<>>
  /\ sent = <<[to |-> last.player, msg |-> Started]>>

\* The step handles a Connect of a seat that is not in the client table, in Lobby
LobbyJoin ==
  /\ HandlesRequest /\ last'.op = "Connect" /\ phase = "Lobby"
  /\ get(clients, last'.player) = 0

\* The PlayerDetails of every client of the table cs, in the order of the table,
\* with the ready flags of the map flags
DetailsIn(cs, flags) ==
  [i \in DOMAIN cs |->
     [seat |-> cs[i].id, name |-> cs[i].name, ready |-> ReadyOf(flags, cs[i].id),
      status |-> IF cs[i].chan_closed THEN "Error" ELSE cs[i].known_status]]

\* C24: a Connect of a seat that is not in the client table, handled in Lobby, adds
\* one client for the seat at the end of the table, with known status Ok and ready
\* false, and changes no other client or flag; the seat is sent Connected first and
\* then a PlayerList that lists it, and every other client of the table is sent
\* that PlayerList once and nothing else.  No seat is in the client table twice.
C24_LobbyJoin ==
  [][/\ LobbyJoin =>
          LET id == last'.player
              list == PlayerList(DetailsIn(clients', readys'))
          IN /\ Len(clients') = Len(clients) + 1
             /\ SubSeq(clients', 1, Len(clients)) = clients
             /\ clients'[Len(clients')].id = id
             /\ clients'[Len(clients')].known_status = "Ok"
             /\ clients'[Len(clients')].name = DefaultName(id)
             /\ id \in DOMAIN readys' /\ ~readys'[id]
             /\ \A o \in DOMAIN readys : o # id => (o \in DOMAIN readys' /\ readys'[o] = readys[o])
             /\ phase' = "Lobby"
             /\ sent'[1] = [to |-> id, msg |-> Connected(id)]
             /\ SentTo(sent', id) = <<Connected(id), list>>
             /\ \E j \in DOMAIN list.players :
                  list.players[j].seat = id /\ ~list.players[j].ready
             /\ \A i \in DOMAIN clients : SentTo(sent', clients[i].id) = <<list>>
             /\ Len(sent') = Len(clients) + 2
     /\ \A i, j \in DOMAIN clients' : clients'[i].id = clients'[j].id => i = j]_vars

\* C24 witness: a second seat joined the lobby; it was sent Connected and the list
\* of both players, the first seat the list.
C24_Witness ==
  /\ phase = "Lobby" /\ last.op = "Connect"
  /\ Len(clients) = 2 /\ clients[2].id = last.player
  /\ Len(sent) = 3
  /\ sent[1].msg.type = "Connected"
  /\ SentTo(sent, clients[1].id) = <<PlayerList(DetailsIn(clients, readys))>>

\* The step handles a Disconnected of a client of the table
DisconnectedHandled ==
  /\ HandlesRequest /\ last'.op = "Disconnected"
  /\ get(clients, last'.player) # 0

\* The messages of a broadcast of message to the clients of cs other than exclude
BroadcastOf(cs, message, exclude) ==
  LET to == SelectSeq(cs, LAMBDA c : c.id # exclude)
  IN [j \in DOMAIN to |-> [to |-> to[j].id, msg |-> message]]

\* Who leaves the table, and what a Disconnected handled in Lobby does
RemovedOnlyInLobby ==
  /\ (\E i \in DOMAIN clients : get(clients', clients[i].id) = 0) =>
       /\ DisconnectedHandled /\ phase = "Lobby"
       /\ clients' = SelectSeq(clients, LAMBDA c : c.id # last'.player)
  /\ (DisconnectedHandled /\ phase = "Lobby") =>
       /\ clients' = SelectSeq(clients, LAMBDA c : c.id # last'.player)
       /\ get(clients', last'.player) = 0
       /\ last'.player \notin DOMAIN readys'
       /\ \A o \in DOMAIN readys' : o \in DOMAIN readys /\ readys'[o] = readys[o]
       /\ sent' = BroadcastOf(clients', PlayerList(DetailsIn(clients', readys')), NoSeat)
       /\ phase' = "Lobby"

\* What a Disconnected handled outside Lobby does to the state
KeptOutsideLobby ==
  (DisconnectedHandled /\ phase # "Lobby") =>
    /\ clients' = [clients EXCEPT ![get(clients, last'.player)].known_status = "Error"]
    /\ UNCHANGED <<draft, phase, finished, readys>>

ErrorUpdate(id) ==
  LET c == clients[get(clients, id)]
  IN PlayerUpdate([seat |-> id, name |-> c.name, ready |-> TRUE, status |-> "Error"])

\* C25 as claimed: a client leaves the table only by a Disconnected handled in
\* Lobby, which also removes its ready entry and broadcasts PlayerList; every
\* Disconnected handled in Draft, Finished or Terminated keeps the record, sets its
\* status to Error, broadcasts a PlayerUpdate to the other clients and changes
\* nothing in the draft.
C25_DisconnectedAlwaysUpdates ==
  [][/\ RemovedOnlyInLobby
     /\ KeptOutsideLobby
     /\ (DisconnectedHandled /\ phase # "Lobby") =>
          sent' = BroadcastOf(clients, ErrorUpdate(last'.player), last'.player)]_vars

\* C25 amended: as above, but outside Lobby the PlayerUpdate is broadcast only if
\* the known status of the client was not Error already; a Disconnected of a
\* client whose status is Error sends nothing.
C25_DisconnectedUpdatesOnChange ==
  [][/\ RemovedOnlyInLobby
     /\ KeptOutsideLobby
     /\ (DisconnectedHandled /\ phase # "Lobby") =>
          sent' = IF clients[get(clients, last'.player)].known_status = "Error"
                  THEN <<>>
                  ELSE BroadcastOf(clients, ErrorUpdate(last'.player), last'.player)]_vars

\* C25 witness: in a draft of two seats a Disconnected of a seat whose status was
\* Error already was handled, and nothing was sent.
C25_Witness ==
  /\ phase = "Draft" /\ last.op = "Disconnected" /\ Len(clients) = 2
  /\ get(clients, last.player) # 0
  /\ clients[get(clients, last.player)].known_status = "Error"
  /\ sent = <<>>

UpdatesSent(msgs) == SelectSeq(msgs, LAMBDA m : m.msg.type = "PlayerUpdate")

\* The PlayerUpdate about seat id as the state after the step has it
UpdateAbout(id) ==
  LET c == clients'[get(clients', id)]
  IN PlayerUpdate([seat |-> id, name |-> c.name,
                   ready |-> IF phase' = "Lobby" THEN ReadyOf(readys', id) ELSE TRUE,
                   status |-> IF c.chan_closed THEN "Error" ELSE c.known_status])

\* C26: every PlayerUpdate sent is about a client S of the table, carries S's name,
\* S's ready flag (the value of the ready map in Lobby, true in every later phase)
\* and S's status, and is sent once to every client other than S and not to S.  In
\* Lobby, the handling of a SetName(n), and of a ReadyState(r) that is handled to its
\* end without starting the draft, sends exactly one such PlayerUpdate to every
\* other client, with the name n and the flag r.
C26_PlayerUpdate ==
  [][HandlesRequest =>
       LET ups == UpdatesSent(sent')
           id == last'.player
       IN /\ \A j \in DOMAIN ups :
               LET about == ups[j].msg.player.seat
               IN /\ get(clients', about) # 0
                  /\ ups[j].to # about
                  /\ ups[j].msg = UpdateAbout(about)
                  /\ ups = BroadcastOf(clients', UpdateAbout(about), about)
          /\ (phase = "Lobby" /\ get(clients, id) # 0 /\ last'.op = "SetName") =>
               /\ ups = BroadcastOf(clients', UpdateAbout(id), id)
               /\ sent' = ups
               /\ \E n \in Names : UpdateAbout(id).player.name = SetNameTo(n)
               /\ UpdateAbout(id).player.ready = ReadyOf(readys, id)
          /\ (phase = "Lobby" /\ get(clients, id) # 0 /\ last'.op = "ReadyState"
                /\ stage' = "running" /\ phase' # "Draft") =>
               /\ ups = BroadcastOf(clients', UpdateAbout(id), id)
               /\ \E r \in BOOLEAN :
                    /\ readys' = MapPut(readys, id, r)
                    /\ phase' = "Lobby" => (sent' = ups /\ UpdateAbout(id).player.ready = r)
               /\ UpdateAbout(id).player.name = clients[get(clients, id)].name]_vars

\* C26 witness: in a lobby of two clients a SetName was handled and the other
\* client was sent the PlayerUpdate with the new name.
C26_Witness ==
  /\ phase = "Lobby" /\ last.op = "SetName" /\ Len(clients) = 2
  /\ Len(sent) = 1
  /\ sent[1].to # last.player
  /\ sent[1].msg.type = "PlayerUpdate"
  /\ sent[1].msg.player.seat = last.player
  /\ sent[1].msg.player.name = SetNameTo("name")

\* C27: handling Terminate(reason), in whatever phase, makes the phase Terminated,
\* closes the inbound queue and sends FatalError(reason) to every client of the
\* table, and to nobody else; once the queue is closed it stays closed and no send
\* on the handle adds a request to it.
C27_Terminate ==
  [][/\ (HandlesRequest /\ last'.op = "Terminate") =>
          /\ phase' = "Terminated"
          /\ closed'
          /\ sent' = BroadcastOf(clients, FatalError(Reason("", "shut down")), NoSeat)
          /\ clients' = clients
     /\ closed => (closed' /\ queued' <= queued)]_vars

\* C27 witness: Terminate was handled while two seats were drafting, and both were
\* sent the FatalError.
C27_Witness ==
  /\ last.op = "Terminate" /\ phase = "Terminated" /\ closed
  /\ draft # NoDraft
  /\ Len(clients) = 2
  /\ Len(sent) = 2
  /\ \A j \in DOMAIN sent : sent[j].msg = FatalError(Reason("", "shut down"))

\* C28: after the lobby has become Terminated further requests are ignored.  No
\* Connect, Message or Terminate handled in Terminated, whether it was sent after
\* the termination or was waiting in the inbound queue when it happened, changes
\* the client table or sends a message.
C28_TerminatedIgnoresRequests ==
  [][(HandlesRequest /\ phase = "Terminated") =>
       /\ clients' = clients
       /\ sent' = <<>>]_vars

\* ------------------------------------------------ properties of make_packs
Made == stage = "made" /\ last.op = "make_packs"

PacksAsked == Len(clients) * config.rounds

SlotsOf(rarity) ==
  CASE rarity = "Rare" -> config.rares
    [] rarity = "Uncommon" -> config.uncommons
    [] rarity = "Common" -> config.commons
    [] OTHER -> 0

\* The cards of a rarity the slots of all packs need: one per slot when cards are
\* unique, one in all when they are rolled
Required(rarity) ==
  IF config.unique_cards THEN PacksAsked * SlotsOf(rarity)
  ELSE IF PacksAsked * SlotsOf(rarity) > 0 THEN 1 ELSE 0

EnoughOfEach == \A r \in {"Rare", "Uncommon", "Common"} : Len(pool[r]) >= Required(r)

\* C29: for a config with rares + uncommons + commons = cards_per_pack and a pool
\* that holds the cards of each rarity the slots need, make_packs succeeds in every
\* mode, whatever the rng draws, and returns players x rounds packs of
\* cards_per_pack cards each.
C29_EnoughCardsMakePacks ==
  (Made /\ SlotsPerPack(config) = config.cards_per_pack /\ EnoughOfEach) =>
    /\ last.ok
    /\ Len(last.packs) = PacksAsked
    /\ \A k \in DOMAIN last.packs : Len(last.packs[k]) = config.cards_per_pack

\* C29 witness: two packs of three cards were made.
C29_Witness ==
  /\ Made /\ EnoughOfEach
  /\ last.ok
  /\ Len(last.packs) = 2
  /\ config.cards_per_pack = 3
  /\ \A k \in DOMAIN last.packs : Len(last.packs[k]) = 3

\* C30: in unique+rarities mode with mythic_rate = 1.0 and a pool holding a Mythic
\* card for every rare slot, every pack make_packs returns holds at least
\* config.rares Mythic cards, whatever the roll of each rare slot
C30_MythicRateOne ==
  (/\ Made /\ last.ok
   /\ config.unique_cards /\ config.use_rarities
   /\ config.mythic_rate = 100
   /\ Len(pool["Mythic"]) >= PacksAsked * config.rares) =>
    \A k \in DOMAIN last.packs :
      Cardinality({i \in DOMAIN last.packs[k] : last.packs[k][i].rarity = "Mythic"}) >= config.rares

\* C31: in unique+rarities mode with mythic_rate = 0.0 and a pool holding a Rare,
\* Uncommon and Common card for every slot, no pack make_packs returns holds a
\* Mythic card, whatever the roll of each rare slot
C31_MythicRateZero ==
  (/\ Made
   /\ config.unique_cards /\ config.use_rarities
   /\ config.mythic_rate = 0
   /\ EnoughOfEach) =>
    \A k \in DOMAIN last.packs : \A i \in DOMAIN last.packs[k] : last.packs[k][i].rarity # "Mythic"

\* C31 witness: two packs with a rare slot each were made at rate 0.0 from a pool
\* that holds Mythic cards.
C31_Witness ==
  /\ Made /\ last.ok
  /\ config.unique_cards /\ config.use_rarities
  /\ config.mythic_rate = 0
  /\ EnoughOfEach
  /\ config.rares = 1
  /\ Len(last.packs) = 2
  /\ pool["Mythic"] # <<>>

\* C32: in both unique modes no card appears in the packs make_packs returns more
\* often than it appears in the input pool
C32_PacksWithinPool ==
  (Made /\ config.unique_cards) =>
    LET InPacks(c) == UNION {{<<k, i>> : i \in {j \in DOMAIN last.packs[k] : last.packs[k][j] = c}} :
                              k \in DOMAIN last.packs}
        InPool(c) == UNION {{<<r, i>> : i \in {j \in DOMAIN pool[r] : pool[r][j] = c}} : r \in Rarities}
    IN \A k \in DOMAIN last.packs : \A i \in DOMAIN last.packs[k] :
         Cardinality(InPacks(last.packs[k][i])) <= Cardinality(InPool(last.packs[k][i]))

\* C32 witness: two packs were made from a pool that holds two copies of a card, and
\* both copies are in the packs.
C32_Witness ==
  /\ Made /\ last.ok /\ config.unique_cards
  /\ Len(last.packs) = 2
  /\ \E r \in Rarities :
       /\ Len(pool[r]) = 2 /\ pool[r][1] = pool[r][2]
       /\ \E k1, k2 \in DOMAIN last.packs :
            /\ k1 # k2
            /\ pool[r][1] \in Range(last.packs[k1]) /\ pool[r][1] \in Range(last.packs[k2])

\* C33: take(r, allow_fallback) and roll(r, allow_fallback) give a card of rarity r
\* when bucket r is not empty; when it is empty and allow_fallback is true, or r is
\* Mythic and the Rare bucket is not empty, they give a card of the first non-empty
\* bucket in r's order (Mythic: Rare, Uncommon, Common; Rare: Mythic, Uncommon,
\* Common; Uncommon: Common, Rare, Mythic; Common: Uncommon, Rare, Mythic); in every
\* other case, and when all buckets are empty, they fail
C33_RarityFallback ==
  [][(stage = "packs" /\ last'.op \in {"take", "roll"}) =>
       LET r == last'.rarity
           order == CASE r = "Mythic" -> <<"Rare", "Uncommon", "Common">>
                      [] r = "Rare" -> <<"Mythic", "Uncommon", "Common">>
                      [] r = "Uncommon" -> <<"Common", "Rare", "Mythic">>
                      [] r = "Common" -> <<"Uncommon", "Rare", "Mythic">>
           filled == {i \in DOMAIN order : pool[order[i]] # <<>>}
       IN IF pool[r] # <<>>
          THEN last'.ok /\ last'.card.rarity = r /\ last'.card \in Range(pool[r])
          ELSE IF filled # {} /\ (config.allow_fallback \/ (r = "Mythic" /\ pool["Rare"] # <<>>))
               THEN LET first == order[CHOOSE i \in filled : \A j \in filled : i <= j]
                    IN last'.ok /\ last'.card.rarity = first /\ last'.card \in Range(pool[first])
               ELSE ~last'.ok]_vars

\* C33 witness: a take of an Uncommon with fallback allowed gave a Rare, the
\* Uncommon and Common buckets being empty.
C33_Witness ==
  /\ stage = "took" /\ last.op = "take"
  /\ last.rarity = "Uncommon"
  /\ config.allow_fallback
  /\ last.ok /\ last.card.rarity = "Rare"
  /\ pool["Uncommon"] = <<>> /\ pool["Common"] = <<>>

\* C34: in non-unique mode make_packs does not consume the pool: whatever the
\* number of players and rounds, if every rarity a slot asks for has a card, or may
\* fall back to a bucket that has one, make_packs returns players x rounds full
\* packs of pool cards; a pool card may be in a pack twice and in several packs
C34_RolledPacks ==
  LET Asks(r) == /\ PacksAsked > 0
                 /\ IF r = "Mythic" THEN config.rares > 0 /\ config.mythic_rate > 0 ELSE SlotsOf(r) > 0
      Has(r) == \/ pool[r] # <<>>
                \/ config.allow_fallback /\ \E q \in Rarities : pool[q] # <<>>
                \/ r = "Mythic" /\ pool["Rare"] # <<>>
  IN (Made /\ ~config.unique_cards /\ \A r \in Rarities : Asks(r) => Has(r)) =>
       /\ last.ok
       /\ Len(last.packs) = PacksAsked
       /\ \A k \in DOMAIN last.packs :
            /\ Len(last.packs[k]) = SlotsPerPack(config)
            /\ \A i \in DOMAIN last.packs[k] : \E r \in Rarities : last.packs[k][i] \in Range(pool[r])

\* C34 witness: two packs of two cards were rolled from a pool of two different
\* cards; the first pack holds one card twice, and the second pack holds it too.
C34_Witness ==
  /\ Made /\ last.ok /\ ~config.unique_cards
  /\ PoolSize(pool) = 2
  /\ \E r \in Rarities : Len(pool[r]) = 2 /\ pool[r][1] # pool[r][2]
  /\ Len(last.packs) = 2
  /\ Len(last.packs[1]) = 2
  /\ last.packs[1][1] = last.packs[1][2]
  /\ last.packs[1][1] \in Range(last.packs[2])

\* C35: in unique no-rarities mode make_packs succeeds if and only if the four
\* buckets together hold at least players x rounds x cards_per_pack cards, and
\* returns no packs when it fails, whatever rares, uncommons, commons and
\* allow_fallback are
C35_NoRaritiesTotal ==
  (Made /\ config.unique_cards /\ ~config.use_rarities) =>
    /\ last.ok <=> (PoolSize(pool) >= PacksAsked * config.cards_per_pack)
    /\ ~last.ok => last.packs = <<>>
    /\ last.ok => /\ Len(last.packs) = PacksAsked
                  /\ \A k \in DOMAIN last.packs : Len(last.packs[k]) = config.cards_per_pack

\* C35 witness: two packs of two cards were made from a pool of four cards by a
\* config whose slot counts do not add up to cards_per_pack.
C35_Witness ==
  /\ Made /\ last.ok
  /\ config.unique_cards /\ ~config.use_rarities
  /\ SlotsPerPack(config) # config.cards_per_pack
  /\ PoolSize(pool) = 4
  /\ Len(last.packs) = 2
  /\ \A k \in DOMAIN last.packs : Len(last.packs[k]) = 2

\* C36: a reconnect is not undone by the connection it replaces.  When the Connect
\* of a seat S of the table has just been handled (S was sent Connected and nothing
\* else went out in Lobby, S was sent Reconnected in Draft and Finished), S's
\* connection is open, and the Disconnected the replaced connection's transport
\* enqueued for S is handled, S stays in the client table in Lobby and S's recorded
\* status stays Ok in Draft and Finished
C36_ReconnectKept ==
  [][\A S \in LobbySeats :
       (/\ last.op = "Connect" /\ last.player = S
        /\ get(clients, S) # 0
        /\ ~clients[get(clients, S)].chan_closed
        /\ clients[get(clients, S)].known_status = "Ok"
        /\ \/ phase = "Lobby" /\ sent = <<[to |-> S, msg |-> Connected(S)]>>
           \/ phase \in {"Draft", "Finished"} /\ sent # <<>> /\ sent[1].to = S
                /\ sent[1].msg.type = "Reconnected"
        /\ HandlesRequest /\ last'.op = "Disconnected" /\ last'.player = S) =>
         /\ get(clients', S) # 0
         /\ clients'[get(clients', S)].known_status = "Ok"]_vars

\* C37: pack notifications track the queue fronts.  In every request handled that
\* leaves the phase Draft, each pack sent to a seat, in a Pack message or in
\* Reconnected, is the front pack of the seat's queue and is not empty, and a seat
\* whose queue front is new and not empty is sent a pack; so after every request
\* the pack sent last to a seat with a queue that is not empty is the front of
\* its queue
C37_PacksTrackFronts ==
  [][(HandlesRequest /\ phase' = "Draft") =>
       \A id \in Seats(draft') :
         LET shown == SelectSeq(SentTo(sent', id),
                                LAMBDA m : m.type = "Pack" \/ (m.type = "Reconnected" /\ m.pack # <<>>))
             packOf(m) == IF m.type = "Pack" THEN <<m.pack>> ELSE m.pack
         IN /\ \A j \in DOMAIN shown :
                 /\ packOf(shown[j]) = FrontPack(draft', id)
                 /\ packOf(shown[j])[1] # <<>>
            /\ (/\ Queue(draft', id) # <<>>
                /\ (phase # "Draft" \/ FrontPack(draft', id) # FrontPack(draft, id))) =>
                 shown # <<>>]_vars

\* C38: the preconditions start_round asserts hold at every invocation, for every
\* config that reaches start_if_ready.  When the lobby starts, the new draft that
\* begin() is called on has all queues empty, is not complete, has
\* current_round < rounds and holds a generated pack for every seat; no
\* invocation, from begin() or from handle_pick at a round end, fails an assertion
\* or the pop of a pack; and in Draft generated_packs holds exactly
\* players x (rounds - current_round) packs
C38_StartRoundPreconditions ==
  /\ [][(LastReady /\ PacksCanBeMade) =>
         \A rnd \in Randomness(Len(clients), config, pool) :
           LET d == Draft_new(ClientIds, config.rounds, make_packs(Len(clients), config, pool, rnd).packs)
           IN /\ round_finished(d)
              /\ ~draft_complete(d)
              /\ d.current_round < d.rounds
              /\ Len(d.generated_packs) >= Len(d.players)]_vars
  /\ [](stage # "panicked")
  /\ [](phase = "Draft" =>
          Len(draft.generated_packs) = Len(draft.players) * (draft.rounds - draft.current_round))

\* C39: the draft cannot get stuck and finishes.  In Draft, while the draft is not
\* complete some seat has a current pack with a card to pick; if requests keep
\* arriving and every seat with a current pack gets a valid Pick through, a lobby
\* in Draft reaches Finished unless it is terminated, whatever else is handled in
\* between; and the pools of a finished draft hold players x rounds x
\* cards_per_pack cards, one for every successful pick
C39_DraftFinishes ==
  /\ [](phase = "Draft" /\ ~draft_complete(draft) =>
          \E id \in Seats(draft) : Queue(draft, id) # <<>> /\ Head(Queue(draft, id)) # <<>>)
  /\ (phase = "Draft") ~> (phase = "Finished" \/ phase = "Terminated")
  /\ [](phase = "Finished" =>
          SumOver([p \in DOMAIN finished |-> Len(finished[p])], DOMAIN finished)
            = Len(clients) * config.rounds * config.cards_per_pack)

====
